---- MODULE Spec2Model ----
(***************************************************************************)
(* Verification model of reddit-who-dis: the result cache and the topic    *)
(* description cache of CacheManager, the activity aggregation of          *)
(* LLMService.analyze_reddit_activity and the analyze_user request         *)
(* handler.                                                                *)
(*                                                                         *)
(* Conventions.  A Python dict is a sequence of <<key, value>> pairs in    *)
(* insertion order with distinct keys.  A JSON value is written as the     *)
(* string of its literal ("50", "true").  sha256 is modelled as an         *)
(* injective tagging of its input (no collisions).  An operation is an     *)
(* operator that returns an outcome record: the value returned, whether    *)
(* an exception left the operation, and the store it leaves behind.        *)
(***************************************************************************)
EXTENDS Integers, Sequences, FiniteSets, TLC

VARIABLES
    store,      \* result cache directory: cache path -> content of the file
    now,        \* time.time(), in seconds
    ticks,      \* how often the clock has advanced
    writes,     \* how many writes the result cache directory has seen
    last,       \* the last operation: its arguments and its outcome
    lastPut,    \* the most recent successful save_result not overwritten since
    inp,        \* the arguments drawn for the pure functions
    topics,     \* content of subreddit_descriptions_cache.json
    procs       \* concurrent invocations: process -> its position and locals

vars == <<store, now, ticks, writes, last, lastPut, inp, topics, procs>>

-----------------------------------------------------------------------------
(* Bounds of the model *)

MaxKeys == 2         \* keys of a parameter mapping given to the fingerprint
MaxTicks == 1        \* advances of the clock
MaxWrites == 2       \* writes to the result cache directory
MaxCacheDays == 1    \* largest cache_days a CacheManager is built with
MaxComments == 2     \* comments given to analyze_reddit_activity
MaxPosts == 2        \* posts given to analyze_reddit_activity
MaxCount == 3        \* largest max_activities
MaxText == 2         \* characters of a text of an activity
MaxBodyLength == 2   \* largest max_post_body_length

-----------------------------------------------------------------------------
(* Parameter mappings *)

\* The keys _generate_config_hash leaves out of the hashed material.
CacheControlKeys == {"cache_days", "force_refresh", "use_cache"}

\* The keys of the modelled parameter mappings, a part of AnalysisRequest
\* and of the config_dict analyze_user builds from it.
KeyNames ==
    {"username", "comments_limit", "include_post_bodies"}
        \cup CacheControlKeys

\* Position of a key in the order of Python's string comparison, which
\* json.dumps(sort_keys=True) sorts by.
KeyRank ==
    [k \in KeyNames |->
        CASE k = "cache_days" -> 1
          [] k = "comments_limit" -> 2
          [] k = "force_refresh" -> 3
          [] k = "include_post_bodies" -> 4
          [] k = "use_cache" -> 5
          [] k = "username" -> 6]

\* JSON literals a key takes in the mappings given to the fingerprint.
ValuesOf ==
    [k \in KeyNames |->
        CASE k = "cache_days" -> {"7"}
          [] k = "comments_limit" -> {"50", "100"}
          [] k = "force_refresh" -> {"true", "false"}
          [] k = "include_post_bodies" -> {"true"}
          [] k = "use_cache" -> {"true"}
          [] k = "username" -> {}]

Items == {<<k, v>> : k \in KeyNames, v \in {"7", "50", "100", "true", "false"}}

KeysOf(d) == {d[i][1] : i \in DOMAIN d}

\* The dicts of at most n entries.
Dicts(n) ==
    {d \in UNION {[1..m -> Items] : m \in 0..n} :
        /\ \A i \in DOMAIN d : d[i][2] \in ValuesOf[d[i][1]]
        /\ \A i, j \in DOMAIN d : i # j => d[i][1] # d[j][1]}

Configs == Dicts(MaxKeys)

-----------------------------------------------------------------------------
(* Fingerprint and storage key *)

Sha256(x) == <<"sha256", x>>

RECURSIVE DictComprehension(_, _)
\* {k: v for k, v in d.items() if k not in excluded}, in insertion order.
DictComprehension(d, excluded) ==
    IF d = <<>> THEN <<>>
    ELSE IF Head(d)[1] \in excluded
         THEN DictComprehension(Tail(d), excluded)
         ELSE <<Head(d)>> \o DictComprehension(Tail(d), excluded)

RECURSIVE InsertByKey(_, _)
InsertByKey(item, sorted) ==
    IF sorted = <<>> THEN <<item>>
    ELSE IF KeyRank[item[1]] < KeyRank[Head(sorted)[1]]
         THEN <<item>> \o sorted
         ELSE <<Head(sorted)>> \o InsertByKey(item, Tail(sorted))

RECURSIVE JsonDumpsSortKeys(_)
\* json.dumps(d, sort_keys=True): the entries of d in the order of their keys.
JsonDumpsSortKeys(d) ==
    IF d = <<>> THEN <<>>
    ELSE InsertByKey(Head(d), JsonDumpsSortKeys(Tail(d)))

\* A fingerprint that hashes the mapping in insertion order.
ConfigHashUnsorted(config_dict) ==
    Sha256(DictComprehension(config_dict, CacheControlKeys))

\* A fingerprint that also hashes the cache-control parameters.
ConfigHashUnfiltered(config_dict) ==
    Sha256(JsonDumpsSortKeys(config_dict))

\* A fingerprint of the names of the parameters only.
ConfigHashOfKeys(config_dict) ==
    LET analysis_config == DictComprehension(config_dict, CacheControlKeys)
        config_str == JsonDumpsSortKeys(analysis_config)
    IN  Sha256([i \in DOMAIN config_str |-> config_str[i][1]])

_generate_config_hash(config_dict) ==
    LET analysis_config == DictComprehension(config_dict, CacheControlKeys)
        config_str == JsonDumpsSortKeys(analysis_config)
    IN  Sha256(config_str)

\* A key that leaves the subject out.
CacheKeyOfConfig(username, config_hash) == Sha256(<<config_hash>>)

_generate_cache_key(username, config_hash) ==
    Sha256(<<username, ":", config_hash>>)

get_cache_path(username, config_dict) ==
    LET config_hash == _generate_config_hash(config_dict)
        cache_key == _generate_cache_key(username, config_hash)
    IN  <<"analysis_", cache_key, ".json">>

-----------------------------------------------------------------------------
(* Python values and exceptions *)

None == [kind |-> "None"]

\* Outcome of a block of statements: the exception that left it ("none"
\* when it ran to its end or returned), the value it returned and the
\* result cache directory it leaves.
Raise(exception, st) == [exc |-> exception, ret |-> None, store |-> st]

Return(value, st) == [exc |-> "none", ret |-> value, store |-> st]

\* except clause that lets every exception through.
ExceptNothing(body) ==
    [ret |-> body.ret, raised |-> body.exc # "none", store |-> body.store]

\* try: body / except Exception: log; return None (or fall off the end).
ExceptException(body) ==
    IF body.exc # "none"
    THEN [ret |-> None, raised |-> FALSE, store |-> body.store]
    ELSE [ret |-> body.ret, raised |-> FALSE, store |-> body.store]

-----------------------------------------------------------------------------
(* Result cache: the stored records *)

Usernames == {"alice", "bob"}

\* The payloads analyze_user caches: {"user_info": ..., "llm_analysis": ...}.
Payloads ==
    {[user_info |-> "info", llm_analysis |-> a] : a \in {"analysis1", "analysis2"}}

Number(n) == [type |-> "number", value |-> n]

\* The JSON object save_result dumps.
CacheData(username, timestamp, config_hash, analysis_result) ==
    [kind |-> "object",
     username |-> username,
     timestamp |-> Number(timestamp),
     config_hash |-> config_hash,
     result |-> analysis_result]

\* File content json.load cannot parse: an empty or partly written file.
Unparsable == [kind |-> "unparsable"]

\* The ways stored content can be other than what save_result wrote.
Damages == {"unparsable", "array", "timestamp_string", "timestamp_missing"}

Damaged(cache_data, damage) ==
    CASE damage = "unparsable" -> Unparsable
      [] damage = "array" -> [kind |-> "array"]
      [] damage = "timestamp_string" ->
            [cache_data EXCEPT !.timestamp = [type |-> "string"]]
      [] damage = "timestamp_missing" ->
            [cache_data EXCEPT !.timestamp = [type |-> "missing"]]

\* cache_data.get('timestamp', 0)
GetTimestamp(cache_data) ==
    IF cache_data.timestamp.type = "missing"
    THEN Number(0)
    ELSE cache_data.timestamp

\* f with the file at path replaced by content.
Written(st, path, content) == (path :> content) @@ st

-----------------------------------------------------------------------------
(* Result cache: get_cached_result *)

\* An expiry test that already drops a record whose age equals the horizon.
IsExpiredAtHorizon(cache_age, cache_days) ==
    cache_age >= cache_days * 24 * 60 * 60

IsExpired(cache_age, cache_days) ==
    cache_age > cache_days * 24 * 60 * 60

\* A reader that removes the expired record it finds.
ExpiredDeleting(st, cache_path) ==
    Return(None, [p \in DOMAIN st \ {cache_path} |-> st[p]])

Expired(st, cache_path) ==
    Return(None, st)

\* The body of the try of get_cached_result; read is what open() does.
ReadCache(st, cache_path, cache_days, t, read) ==
    IF read = "oserror" THEN Raise("OSError", st)
    ELSE
      LET cache_data == st[cache_path] IN
      IF cache_data.kind = "unparsable" THEN Raise("JSONDecodeError", st)
      ELSE IF cache_data.kind # "object" THEN Raise("AttributeError", st)
      ELSE
        LET timestamp == GetTimestamp(cache_data) IN
        IF timestamp.type # "number" THEN Raise("TypeError", st)
        ELSE
          LET cache_age == t - timestamp.value IN
          IF IsExpired(cache_age, cache_days)
          THEN Expired(st, cache_path)
          ELSE Return(cache_data, st)

get_cached_result(st, username, config_dict, cache_days, t, read) ==
    LET cache_path == get_cache_path(username, config_dict) IN
    IF cache_path \notin DOMAIN st
    THEN [ret |-> None, raised |-> FALSE, store |-> st]
    ELSE ExceptException(ReadCache(st, cache_path, cache_days, t, read))

-----------------------------------------------------------------------------
(* Result cache: save_result *)

\* A writer that keeps the time of the record it replaces.
CacheDataKeepingTime(st, username, config_dict, analysis_result, t) ==
    LET cache_path == get_cache_path(username, config_dict)
        kept == IF cache_path \in DOMAIN st /\ st[cache_path].kind = "object"
                   /\ st[cache_path].timestamp.type = "number"
                THEN st[cache_path].timestamp.value
                ELSE t
    IN  CacheData(username, kept, _generate_config_hash(config_dict),
                  analysis_result)

\* The record save_result builds before it opens the file.
NewCacheData(st, username, config_dict, analysis_result, t) ==
    CacheData(username, t, _generate_config_hash(config_dict), analysis_result)

\* A writer that opens the file for appending: what it writes after an
\* earlier record is no JSON document.
WriteCacheAppending(st, cache_path, cache_data, io) ==
    CASE io = "open_fails" -> Raise("OSError", st)
      [] io = "dump_fails" ->
            Raise("TypeError", Written(st, cache_path, Unparsable))
      [] io = "ok" ->
            IF cache_path \in DOMAIN st
            THEN Return(None, Written(st, cache_path, Unparsable))
            ELSE Return(None, Written(st, cache_path, cache_data))

\* The body of the try of save_result; io is what open() and json.dump do:
\* open(path, 'w') truncates the file before json.dump writes to it.
WriteCache(st, cache_path, cache_data, io) ==
    CASE io = "open_fails" -> Raise("OSError", st)
      [] io = "dump_fails" ->
            Raise("TypeError", Written(st, cache_path, Unparsable))
      [] io = "ok" -> Return(None, Written(st, cache_path, cache_data))

save_result(st, username, config_dict, analysis_result, t, io) ==
    LET cache_path == get_cache_path(username, config_dict)
        cache_data ==
            NewCacheData(st, username, config_dict, analysis_result, t)
    IN  ExceptException(WriteCache(st, cache_path, cache_data, io))

-----------------------------------------------------------------------------
(* Activities *)

\* An Optional[str] that is None.
NoString == "<None>"

\* Truth value of an Optional[str]: None and "" are false.
Truthy(string) == string \notin {NoString, ""}

Comment(id, subreddit, created_utc, parent_author, parent_context) ==
    [id |-> id, subreddit |-> subreddit, created_utc |-> created_utc,
     type |-> "comment", parent_author |-> parent_author,
     parent_context |-> parent_context]

Post(id, subreddit, created_utc) ==
    [id |-> id, subreddit |-> subreddit, created_utc |-> created_utc,
     type |-> "post"]

\* html.escape(None) raises AttributeError: Comment.to_xml escapes
\* parent_author whenever parent_context is true.  Post.to_xml escapes
\* strings only.
ToXmlRaises(activity) ==
    /\ activity.type = "comment"
    /\ Truthy(activity.parent_context)
    /\ activity.parent_author = NoString

-----------------------------------------------------------------------------
(* LLMService.analyze_reddit_activity *)

RECURSIVE AppendUnseen(_, _)
\* for a in activities: if a.id not in seen_ids: all_activities.append(a)
AppendUnseen(all_activities, activities) ==
    IF activities = <<>> THEN all_activities
    ELSE IF Head(activities).id \in
              {all_activities[i].id : i \in DOMAIN all_activities}
         THEN AppendUnseen(all_activities, Tail(activities))
         ELSE AppendUnseen(Append(all_activities, Head(activities)),
                           Tail(activities))

\* A deduplication that goes through the posts first.
CombinePostsFirst(comments, posts) ==
    AppendUnseen(AppendUnseen(<<>>, posts), comments)

\* The two loops that fill all_activities: comments, then posts.
Combine(comments, posts) ==
    AppendUnseen(AppendUnseen(<<>>, comments), posts)

RECURSIVE InsertBeforeEqual(_, _)
\* An insertion that puts an activity before those of the same time.
InsertBeforeEqual(sorted, activity) ==
    IF sorted = <<>> THEN <<activity>>
    ELSE IF Head(sorted).created_utc > activity.created_utc
         THEN <<Head(sorted)>> \o InsertBeforeEqual(Tail(sorted), activity)
         ELSE <<activity>> \o sorted

RECURSIVE InsertByCreated(_, _)
\* Place of an activity among those sorted so far: after every one that is
\* as recent or more recent.
InsertByCreated(sorted, activity) ==
    IF sorted = <<>> THEN <<activity>>
    ELSE IF Head(sorted).created_utc >= activity.created_utc
         THEN <<Head(sorted)>> \o InsertByCreated(Tail(sorted), activity)
         ELSE <<activity>> \o sorted

RECURSIVE SortFrom(_, _)
SortFrom(sorted, activities) ==
    IF activities = <<>> THEN sorted
    ELSE SortFrom(InsertByCreated(sorted, Head(activities)), Tail(activities))

\* list.sort(key=lambda x: x.created_utc, reverse=True): stable, most
\* recent first.
SortByCreatedDesc(activities) == SortFrom(<<>>, activities)

\* A slice that keeps one element more.
SliceOneMore(list, n) ==
    SubSeq(list, 1, IF n + 1 < Len(list) THEN n + 1 ELSE Len(list))

\* list[:n]
Slice(list, n) ==
    IF n >= 0
    THEN SubSeq(list, 1, IF n < Len(list) THEN n ELSE Len(list))
    ELSE SubSeq(list, 1, Len(list) + n)

\* What the request to the language model comes to.
LlmOutcomes == {"text", "unexpected", "request_exception", "exception"}

\* The try around requests.post: every failure becomes a text.
LlmResponse(llm) ==
    CASE llm = "text" -> "analysis"
      [] llm = "unexpected" -> "LLM response structure unexpected"
      [] llm = "request_exception" -> "An error occurred during LLM API call"
      [] llm = "exception" -> "An unexpected error occurred during LLM analysis"

\* An analysis without the test for empty inputs.
AnalyzeWithoutEmptyCheck(comments, posts, max_activities, llm) ==
    [ret |-> LlmResponse(llm), raised |-> FALSE,
     activities_for_llm |->
        Slice(SortByCreatedDesc(Combine(comments, posts)), max_activities),
     llm_called |-> TRUE]

\* The outcome: the text returned, whether an exception left the method,
\* the activities selected for the prompt and whether the model was called.
analyze_reddit_activity(comments, posts, max_activities, llm) ==
    IF comments = <<>> /\ posts = <<>>
    THEN [ret |-> "No comments or posts to analyze.", raised |-> FALSE,
          activities_for_llm |-> <<>>, llm_called |-> FALSE]
    ELSE
      LET all_activities == SortByCreatedDesc(Combine(comments, posts))
          activities_for_llm == Slice(all_activities, max_activities)
      IN  IF \E i \in DOMAIN activities_for_llm :
                ToXmlRaises(activities_for_llm[i])
          THEN [ret |-> NoString, raised |-> TRUE,
                activities_for_llm |-> activities_for_llm,
                llm_called |-> FALSE]
          ELSE [ret |-> LlmResponse(llm), raised |-> FALSE,
                activities_for_llm |-> activities_for_llm,
                llm_called |-> TRUE]

-----------------------------------------------------------------------------
(* Serialization: Comment.to_xml and Post.to_xml *)

\* A str as the sequence of its characters; an Optional[str] is that or
\* None.
Str(chars) == [kind |-> "str", chars |-> chars]

\* Truth value of an Optional[str] in an if.
IsTrue(optional) == optional # None /\ optional.chars # <<>>

\* html.escape(s), quote=True, character by character.
EscapeChar(c) ==
    CASE c = "&" -> "&amp;"
      [] c = "<" -> "&lt;"
      [] c = ">" -> "&gt;"
      [] c = "\"" -> "&quot;"
      [] c = "'" -> "&#x27;"
      [] OTHER -> c

Escape(chars) == [i \in DOMAIN chars |-> EscapeChar(chars[i])]

\* An element of the rendered record, with the text put between its tags.
Element(tag, text) == [tag |-> tag, text |-> text]

\* The outcome of to_xml: the child elements of <Content>, in order, or an
\* exception.
Rendered(content) == [raised |-> FALSE, content |-> content]

RenderingRaised == [raised |-> TRUE, content |-> <<>>]

\* A post whose body is rendered whatever include_post_bodies says.
PostToXmlAlwaysBody(post, include_post_bodies, max_post_body_length) ==
    Rendered(<<Element("Title", Escape(post.title.chars)),
               Element("Body",
                       Escape(Slice(post.selftext.chars,
                                    max_post_body_length)))>>)

\* Post.to_xml
PostToXml(post, include_post_bodies, max_post_body_length) ==
    LET body_xml ==
            IF include_post_bodies /\ IsTrue(post.selftext)
            THEN <<Element("Body",
                           Escape(Slice(post.selftext.chars,
                                        max_post_body_length)))>>
            ELSE <<>>
    IN  Rendered(<<Element("Title", Escape(post.title.chars))>> \o body_xml)

\* Comment.to_xml: the parent context is rendered first, and escaping a
\* parent_author that is None raises AttributeError.
CommentToXml(comment) ==
    IF IsTrue(comment.parent_context) /\ comment.parent_author = None
    THEN RenderingRaised
    ELSE Rendered(
            <<Element("Body", Escape(comment.body.chars))>>
            \o (IF IsTrue(comment.parent_context)
                THEN <<Element("ParentContext",
                               Escape(comment.parent_context.chars))>>
                ELSE <<>>))

\* activity.to_xml(include_post_bodies, max_post_body_length)
to_xml(activity, include_post_bodies, max_post_body_length) ==
    IF activity.type = "post"
    THEN PostToXml(activity, include_post_bodies, max_post_body_length)
    ELSE CommentToXml(activity)

\* main.format_activity_for_llm, on the dict of an activity: labelled lines
\* instead of elements, nothing escaped.
format_activity_for_llm(activity, include_post_bodies, max_post_body_length) ==
    IF activity.type = "comment"
    THEN Rendered(
            <<Element("Content", activity.body.chars)>>
            \o (IF IsTrue(activity.parent_context)
                THEN <<Element("Parent Context",
                               activity.parent_context.chars)>>
                ELSE <<>>))
    ELSE IF include_post_bodies /\ IsTrue(activity.selftext)
         THEN Rendered(<<Element("Title", activity.title.chars),
                         Element("Content",
                                 Slice(activity.selftext.chars,
                                       max_post_body_length))>>)
         ELSE Rendered(<<Element("Title", activity.title.chars)>>)

\* A <Subreddit> element of the context block: the text put into its name
\* attribute and the text put between its tags.
Subreddit(name, text) == [tag |-> "Subreddit", name |-> name, text |-> text]

\* models.subreddit_contexts_to_xml: name and description escaped.
subreddit_contexts_to_xml(subreddit_descriptions) ==
    [i \in DOMAIN subreddit_descriptions |->
        Subreddit(Escape(subreddit_descriptions[i][1].chars),
                  Escape(subreddit_descriptions[i][2].chars))]

\* The context block as analyze_reddit_activity builds it, with an f-string
\* of its own: name and description as they are.
SubredditContextXml(subreddit_descriptions) ==
    [i \in DOMAIN subreddit_descriptions |->
        Subreddit(subreddit_descriptions[i][1].chars,
                  subreddit_descriptions[i][2].chars)]

\* The prompt of analyze_reddit_activity: the context block and the records
\* of the selected activities; a record that cannot be rendered ends the
\* call.
Prompt(subreddit_descriptions, activities_for_llm, include_post_bodies, max_post_body_length) ==
    LET records == [i \in DOMAIN activities_for_llm |->
                      to_xml(activities_for_llm[i], include_post_bodies,
                             max_post_body_length)]
    IN  IF \E i \in DOMAIN records : records[i].raised
        THEN [raised |-> TRUE, contexts |-> <<>>, activities |-> <<>>]
        ELSE [raised |-> FALSE,
              contexts |-> SubredditContextXml(subreddit_descriptions),
              activities |-> [i \in DOMAIN records |-> records[i].content]]

-----------------------------------------------------------------------------
(* Topic description cache: CacheManager.get_subreddit_descriptions *)

\* A text is a sequence of characters; a fixed text is one chunk.
Whitespace == {" ", "\n"}

RECURSIVE LStrip(_)
LStrip(text) ==
    IF text # <<>> /\ Head(text) \in Whitespace THEN LStrip(Tail(text)) ELSE text

RECURSIVE RStrip(_)
RStrip(text) ==
    IF text # <<>> /\ text[Len(text)] \in Whitespace
    THEN RStrip(SubSeq(text, 1, Len(text) - 1))
    ELSE text

\* A cleaning that trims and leaves the embedded newlines.
CleanKeepingNewlines(desc) == RStrip(LStrip(desc))

\* desc.strip().replace("\n", " ")
Clean(desc) ==
    LET stripped == RStrip(LStrip(desc))
    IN  [i \in DOMAIN stripped |->
            IF stripped[i] = "\n" THEN " " ELSE stripped[i]]

NoDescription == <<"(No description available)">>

CouldNotFetch == <<"(Could not fetch description)">>

\* a or b, for texts
Or(a, b) == IF a # <<>> THEN a ELSE b

\* The parsed content of the topic store: a JSON object of entries.
Mapping(entries) == [kind |-> "object", entries |-> entries]

\* get_cached_subreddit_descriptions: {} when the file is absent or cannot
\* be opened or parsed, otherwise whatever JSON value it holds.
get_cached_subreddit_descriptions(file, read) ==
    IF file = None THEN Mapping(<<>>)
    ELSE IF read = "oserror" \/ file.kind = "unparsable" THEN Mapping(<<>>)
    ELSE file

\* A save that writes nothing.
SaveDiscarding(file, descriptions, io) == file

\* save_subreddit_descriptions: open(path, 'w') truncates, json.dump writes,
\* every exception is logged only.
save_subreddit_descriptions(file, descriptions, io) ==
    CASE io = "open_fails" -> file
      [] io = "dump_fails" -> Unparsable
      [] io = "ok" -> descriptions

\* The state of the loop of get_subreddit_descriptions.
LoopState(cache, subreddit_descriptions, updated, fetched, exc) ==
    [cache |-> cache, subreddit_descriptions |-> subreddit_descriptions,
     updated |-> updated, fetched |-> fetched, exc |-> exc]

\* A refresh that returns the sentinel of a failed fetch without storing it.
RefreshForgettingFailure(acc, sub, t, outcome) ==
    IF outcome.ok
    THEN LET desc_clean == Clean(Or(outcome.public_description,
                                    Or(outcome.description, NoDescription)))
         IN  LoopState(Mapping((sub :> [desc |-> desc_clean,
                                        timestamp |-> Number(t)])
                                   @@ acc.cache.entries),
                       (sub :> desc_clean) @@ acc.subreddit_descriptions,
                       TRUE, Append(acc.fetched, sub), "none")
    ELSE LoopState(acc.cache,
                   (sub :> CouldNotFetch) @@ acc.subreddit_descriptions,
                   acc.updated, Append(acc.fetched, sub), "none")

\* A refresh that leaves a topic out when its fetch fails.
RefreshOmittingFailure(acc, sub, t, outcome) ==
    IF outcome.ok
    THEN LET desc_clean == Clean(Or(outcome.public_description,
                                    Or(outcome.description, NoDescription)))
         IN  LoopState(Mapping((sub :> [desc |-> desc_clean,
                                        timestamp |-> Number(t)])
                                   @@ acc.cache.entries),
                       (sub :> desc_clean) @@ acc.subreddit_descriptions,
                       TRUE, Append(acc.fetched, sub), "none")
    ELSE [acc EXCEPT !.fetched = Append(@, sub)]

\* The refresh branch: fetch the description, or store the sentinel.
Refresh(acc, sub, t, outcome) ==
    LET desc_clean ==
            IF outcome.ok
            THEN Clean(Or(outcome.public_description,
                          Or(outcome.description, NoDescription)))
            ELSE CouldNotFetch
        entry == [desc |-> desc_clean, timestamp |-> Number(t)]
    IN  LoopState(Mapping((sub :> entry) @@ acc.cache.entries),
                  (sub :> desc_clean) @@ acc.subreddit_descriptions,
                  TRUE, Append(acc.fetched, sub), "none")

\* A freshness test that still takes an entry whose age equals the time to
\* live.
IsFreshAtTtl(t, ts, cache_days) == (t - ts) <= (cache_days * 24 * 60 * 60)

\* (now - ts) < (self.cache_days * 24 * 60 * 60)
IsFresh(t, ts, cache_days) == (t - ts) < (cache_days * 24 * 60 * 60)

\* isinstance(cache_entry, dict) of a truthy entry: an entry is a JSON
\* object with members, or some other JSON value.
IsDict(cache_entry) == "kind" \notin DOMAIN cache_entry

\* cache_entry.get("desc") is not None
HasDesc(cache_entry) == "desc" \in DOMAIN cache_entry

\* An iteration that stamps an entry with the time of the call when it is
\* served from the cache.
DescribeOneTouching(acc, sub, force_refresh, cache_days, t, outcome) ==
    IF acc.cache.kind # "object"
    THEN [acc EXCEPT !.exc = "AttributeError"]
    ELSE IF force_refresh \/ sub \notin DOMAIN acc.cache.entries
    THEN Refresh(acc, sub, t, outcome)
    ELSE
      LET cache_entry == acc.cache.entries[sub] IN
      IF ~IsDict(cache_entry) \/ ~HasDesc(cache_entry)
      THEN Refresh(acc, sub, t, outcome)
      ELSE
        LET ts == GetTimestamp(cache_entry) IN
        IF ts.type # "number"
        THEN [acc EXCEPT !.exc = "TypeError"]
        ELSE IF IsFresh(t, ts.value, cache_days)
        THEN LoopState(Mapping((sub :> [desc |-> cache_entry.desc,
                                        timestamp |-> Number(t)])
                                   @@ acc.cache.entries),
                       (sub :> cache_entry.desc) @@ acc.subreddit_descriptions,
                       TRUE, acc.fetched, "none")
        ELSE Refresh(acc, sub, t, outcome)

\* One iteration of the loop over the requested subreddits: cache.get(sub)
\* comes first and needs a mapping, the age is computed only for an entry
\* that has a description.
DescribeOne(acc, sub, force_refresh, cache_days, t, outcome) ==
    IF acc.cache.kind # "object"
    THEN [acc EXCEPT !.exc = "AttributeError"]
    ELSE IF force_refresh \/ sub \notin DOMAIN acc.cache.entries
    THEN Refresh(acc, sub, t, outcome)
    ELSE
      LET cache_entry == acc.cache.entries[sub] IN
      IF ~IsDict(cache_entry) \/ ~HasDesc(cache_entry)
      THEN Refresh(acc, sub, t, outcome)
      ELSE
        LET ts == GetTimestamp(cache_entry) IN
        IF ts.type # "number"
        THEN [acc EXCEPT !.exc = "TypeError"]
        ELSE IF IsFresh(t, ts.value, cache_days)
        THEN [acc EXCEPT !.subreddit_descriptions =
                            (sub :> cache_entry.desc) @@ @]
        ELSE Refresh(acc, sub, t, outcome)

RECURSIVE DescribeAll(_, _, _, _, _, _)
\* for sub in subreddits, in the order the set is iterated in
DescribeAll(acc, subreddits, force_refresh, cache_days, t, fetch) ==
    IF subreddits = <<>> \/ acc.exc # "none" THEN acc
    ELSE DescribeAll(
            DescribeOne(acc, Head(subreddits), force_refresh, cache_days, t,
                        fetch[Head(subreddits)]),
            Tail(subreddits), force_refresh, cache_days, t, fetch)

\* The outcome: the mapping returned, whether an exception left the
\* method, the topic store afterwards, the topics whose description was
\* fetched, one entry per call of the collaborator, and whether the store
\* was opened for writing.
\* A call that writes the store back whether or not it changed.
SavesAlways(updated) == TRUE

\* save_subreddit_descriptions is called when the loop updated an entry.
SavesWhen(updated) == updated

get_subreddit_descriptions(file, subreddits, force_refresh, cache_days, t, fetch, read, io) ==
    LET cache == get_cached_subreddit_descriptions(file, read)
        done == DescribeAll(LoopState(cache, <<>>, FALSE, <<>>, "none"),
                            subreddits, force_refresh, cache_days, t, fetch)
    IN  IF done.exc # "none"
        THEN [ret |-> <<>>, raised |-> TRUE, topics |-> file,
              fetched |-> done.fetched, saves |-> 0]
        ELSE IF SavesWhen(done.updated)
        THEN [ret |-> done.subreddit_descriptions, raised |-> FALSE,
              topics |-> save_subreddit_descriptions(file, done.cache, io),
              fetched |-> done.fetched, saves |-> 1]
        ELSE [ret |-> done.subreddit_descriptions, raised |-> FALSE,
              topics |-> file, fetched |-> done.fetched, saves |-> 0]

-----------------------------------------------------------------------------
(* RedditService *)

\* The fields of the dataclasses that have no default.
CommentRequired ==
    {"id", "subreddit", "created_utc", "type", "body", "link_title", "ups",
     "downs"}

PostRequired ==
    {"id", "subreddit", "created_utc", "type", "title", "selftext", "ups",
     "downs"}

\* The keyword arguments fetch_comments and fetch_posts construct with.
FetchCommentsKeywords ==
    {"id", "subreddit", "created_utc", "body", "link_title", "parent_context",
     "type"}

FetchPostsKeywords ==
    {"id", "subreddit", "created_utc", "title", "selftext", "type"}

\* A dataclass __init__ raises TypeError when a field without default gets
\* no argument.
InitRaises(required, keywords) == required \ keywords # {}

\* What the activity source yields: raw items, or a failure while iterating.
SourceError == [error |-> TRUE]

RECURSIVE FetchCommentsLoop(_, _, _)
\* The loop of fetch_comments inside its try: any exception ends it with
\* the comments collected so far.
FetchCommentsLoop(comments, raw, include_parent_context) ==
    IF raw = <<>> THEN comments
    ELSE IF Head(raw) = SourceError THEN comments
    ELSE IF InitRaises(CommentRequired, FetchCommentsKeywords) THEN comments
    ELSE FetchCommentsLoop(
            Append(comments,
                   Comment(Head(raw).id, Head(raw).subreddit,
                           Head(raw).created_utc, NoString,
                           IF include_parent_context
                           THEN Head(raw).parent ELSE NoString)),
            Tail(raw), include_parent_context)

fetch_comments(raw, include_parent_context) ==
    FetchCommentsLoop(<<>>, raw, include_parent_context)

RECURSIVE FetchPostsLoop(_, _)
FetchPostsLoop(posts, raw) ==
    IF raw = <<>> THEN posts
    ELSE IF Head(raw) = SourceError THEN posts
    ELSE IF InitRaises(PostRequired, FetchPostsKeywords) THEN posts
    ELSE FetchPostsLoop(
            Append(posts, Post(Head(raw).id, Head(raw).subreddit,
                               Head(raw).created_utc)),
            Tail(raw))

fetch_posts(raw) == FetchPostsLoop(<<>>, raw)

\* The parent of a comment as fetch_comments sees it: comment.parent()
\* raises, or gives a comment (it has a body), a submission (title and
\* selftext) or something with neither.
ParentContextOf(parent, max_parent_context_length) ==
    CASE parent.kind = "comment" ->
            Str(Slice(parent.body.chars, max_parent_context_length))
      [] parent.kind = "submission" ->
            Str(Slice(parent.title.chars \o <<"\n">> \o parent.selftext.chars,
                      max_parent_context_length))
      [] OTHER -> None

\* The texts fetch_comments hands to Comment(...): the body and the parent
\* context, both cut when they are taken from the source.
CommentTexts(comment, include_parent_context, max_parent_context_length, max_comment_length) ==
    [body |-> Str(Slice(comment.body.chars, max_comment_length)),
     parent_context |->
        IF include_parent_context
        THEN ParentContextOf(comment.parent, max_parent_context_length)
        ELSE None]

\* The texts fetch_posts hands to Post(...): title and selftext as the
\* source gives them.
PostTexts(submission) ==
    [title |-> submission.title, selftext |-> submission.selftext]

\* The activities a fetch returns for one raw item whose construction got
\* the texts fields.
Constructed(required, keywords, fields) ==
    IF InitRaises(required, keywords) THEN <<>> ELSE <<fields>>

\* Whether an exception leaves a fetch: the loop over the source is inside
\* try / except Exception, which logs, and the list is returned after it.
FetchRaises(source) == FALSE

\* {comment.subreddit for comment in comments}.union({post.subreddit ...})
unique_subreddits(comments, posts) ==
    {comments[i].subreddit : i \in DOMAIN comments}
        \cup {posts[i].subreddit : i \in DOMAIN posts}

\* The orders a set can be iterated in.
Orders(S) ==
    {order \in [1..Cardinality(S) -> S] :
        \A x \in S : \E i \in DOMAIN order : order[i] = x}

-----------------------------------------------------------------------------
(* The HTTP entry point: analyze_user *)

\* json.dumps of a bool and of a small int.
JsonBool(b) == IF b THEN "true" ELSE "false"

JsonInt(n) == <<"0", "1", "2", "3", "4", "5", "6", "7", "8", "9">>[n + 1]

\* req.model_dump() updated with the environment: the modelled keys in the
\* order of the fields, cache_days last.  The remaining limits and the
\* credentials are the same in every request of the model and left out.
ConfigDict(req, env) ==
    << <<"username", req.username>>,
       <<"comments_limit", req.comments_limit>>,
       <<"include_post_bodies", "true">>,
       <<"force_refresh", JsonBool(req.force_refresh)>>,
       <<"use_cache", JsonBool(req.use_cache)>>,
       <<"cache_days", JsonInt(env.cache_days)>> >>

\* The variables the validation loop looks at, in its order.
RequiredVars == <<"reddit_client_id", "reddit_client_secret", "google_api_key">>

RECURSIVE FirstMissing(_, _)
\* The first required variable that is unset or empty, NoString if none.
FirstMissing(required, missing) ==
    IF required = <<>> THEN NoString
    ELSE IF Head(required) \in missing THEN Head(required)
    ELSE FirstMissing(Tail(required), missing)

\* Whether the log of calls holds a call of name.
Called(calls, name) == \E i \in DOMAIN calls : calls[i] = name

\* raise HTTPException(status_code, detail); a detail is a text in chunks.
HTTPException(status_code, detail, st, file, calls) ==
    [status |-> status_code, detail |-> detail, ret |-> None,
     store |-> st, topics |-> file, calls |-> calls]

\* An exception other than HTTPException leaves the handler.
InternalError(st, file, calls) ==
    HTTPException(500, <<"Internal Server Error">>, st, file, calls)

Response(value, st, file, calls) ==
    [status |-> 200, detail |-> <<>>, ret |-> value,
     store |-> st, topics |-> file, calls |-> calls]

\* A handler that leaves a result record when it found no activity.
NoActivitySaving(st, file, calls) ==
    HTTPException(404, <<"No comments or posts found">>,
                  save_result(st, "alice", <<>>,
                              [user_info |-> "info", llm_analysis |-> ""],
                              0, "ok").store,
                  file, Append(calls, "save_result"))

\* if not (user_comments or user_posts): raise HTTPException(404, ...)
NoActivityFound(st, file, calls) ==
    HTTPException(404, <<"No comments or posts found">>, st, file, calls)

\* The handler after the result cache gave nothing: fetch, describe,
\* analyze, save.
Compute(st, file, req, env, config_dict, t, world, calls) ==
    LET user_comments ==
            fetch_comments(world.raw_comments, req.include_parent_context)
        user_posts == fetch_posts(world.raw_posts)
        described ==
            get_subreddit_descriptions(file, world.order, req.force_refresh,
                                       env.cache_days, t, world.fetch,
                                       world.topics_read, world.topics_io)
        analysis ==
            analyze_reddit_activity(user_comments, user_posts,
                                    req.llm_activities_limit, world.llm)
        result == [user_info |-> "info", llm_analysis |-> analysis.ret]
        fetched == calls \o <<"fetch_redditor", "get_user_info",
                              "fetch_comments", "fetch_posts",
                              "get_subreddit_descriptions">>
                         \o [i \in DOMAIN described.fetched |->
                                "reddit.subreddit"]
        analyzed == fetched \o (IF analysis.llm_called THEN <<"llm">>
                                                        ELSE <<>>)
    IN  IF ~world.redditor
        THEN HTTPException(404, <<"User not found">>, st, file,
                           Append(calls, "fetch_redditor"))
        ELSE IF described.raised
        THEN InternalError(st, described.topics, fetched)
        ELSE IF user_comments = <<>> /\ user_posts = <<>>
        THEN NoActivityFound(st, described.topics, fetched)
        ELSE IF analysis.raised
        THEN InternalError(st, described.topics, analyzed)
        ELSE IF req.use_cache
        THEN Response(result,
                      save_result(st, req.username, config_dict, result, t,
                                  world.io).store,
                      described.topics, Append(analyzed, "save_result"))
        ELSE Response(result, st, described.topics, analyzed)

\* The environment variables behind the required settings, in the order
\* Config.from_env_and_args looks at them.
RequiredEnvVars == <<"REDDIT_CLIENT_ID", "REDDIT_CLIENT_SECRET", "GOOGLE_API_KEY">>

\* not os.getenv(var)
Unset(env, var) ==
    \E i \in DOMAIN RequiredEnvVars :
        RequiredEnvVars[i] = var /\ RequiredVars[i] \in env.missing

\* Config.from_env_and_args: ValueError naming every missing variable, or
\* the Config; it calls nothing but the environment.
from_env_and_args(env) ==
    LET missing_vars == SelectSeq(RequiredEnvVars, LAMBDA var : Unset(env, var))
    IN  IF missing_vars # <<>>
        THEN [raised |-> TRUE,
              error |-> <<"Missing required environment variables: ">>
                            \o missing_vars,
              calls |-> <<>>]
        ELSE [raised |-> FALSE, error |-> <<>>, calls |-> <<>>]

\* A handler that looks at the result cache before it validates the
\* environment.
AnalyzeUserValidatingLate(st, file, req, env, t, world) ==
    LET config_dict == ConfigDict(req, env)
        var == FirstMissing(RequiredVars, env.missing)
        consult == req.use_cache /\ ~req.force_refresh
        cached == get_cached_result(st, req.username, config_dict,
                                    env.cache_days, t, world.read)
        calls == IF consult THEN <<"get_cached_result">> ELSE <<>>
    IN  IF consult /\ cached.ret # None
        THEN Response(cached.ret.result, cached.store, file, calls)
        ELSE IF var # NoString
        THEN HTTPException(500, <<"Missing env var: ", var>>, st, file, calls)
        ELSE Compute(IF consult THEN cached.store ELSE st, file, req, env,
                     config_dict, t, world, calls)

\* A handler that asks the result cache whatever use_cache says.
AnalyzeUserAlwaysConsulting(st, file, req, env, t, world) ==
    LET config_dict == ConfigDict(req, env)
        var == FirstMissing(RequiredVars, env.missing)
        consult == ~req.force_refresh
        cached == get_cached_result(st, req.username, config_dict,
                                    env.cache_days, t, world.read)
        calls == IF consult THEN <<"get_cached_result">> ELSE <<>>
    IN  IF var # NoString
        THEN HTTPException(500, <<"Missing env var: ", var>>, st, file, <<>>)
        ELSE IF consult /\ cached.ret # None
        THEN Response(cached.ret.result, cached.store, file, calls)
        ELSE Compute(IF consult THEN cached.store ELSE st, file, req, env,
                     config_dict, t, world, calls)

\* A handler that does not look at the result cache.
AnalyzeUserIgnoringCache(st, file, req, env, t, world) ==
    IF FirstMissing(RequiredVars, env.missing) # NoString
    THEN HTTPException(500, <<"Missing env var: ",
                              FirstMissing(RequiredVars, env.missing)>>,
                       st, file, <<>>)
    ELSE Compute(st, file, req, env, ConfigDict(req, env), t, world, <<>>)

\* The outcome: status and detail or returned value, both stores
\* afterwards and the calls made to the result cache and the collaborators,
\* in their order; world is what the storage, the activity source and the
\* language model do.
analyze_user(st, file, req, env, t, world) ==
    LET config_dict == ConfigDict(req, env)
        var == FirstMissing(RequiredVars, env.missing)
        consult == req.use_cache /\ ~req.force_refresh
        cached == get_cached_result(st, req.username, config_dict,
                                    env.cache_days, t, world.read)
        calls == IF consult THEN <<"get_cached_result">> ELSE <<>>
    IN  IF var # NoString
        THEN HTTPException(500, <<"Missing env var: ", var>>, st, file, <<>>)
        ELSE IF consult /\ cached.ret # None
        THEN Response(cached.ret.result, cached.store, file, calls)
        ELSE Compute(IF consult THEN cached.store ELSE st, file, req, env,
                     config_dict, t, world, calls)

-----------------------------------------------------------------------------
(* The result cache under its callers: Spec *)

\* The parameter mappings the callers of the result cache pass:
\* comments_limit = 50 alone or with force_refresh = true before or after
\* it, and comments_limit = 100.
StoreConfigs ==
    {c \in Configs :
        \/ /\ <<"comments_limit", "50">> \in {c[i] : i \in DOMAIN c}
           /\ KeysOf(c) \subseteq {"comments_limit", "force_refresh"}
           /\ <<"force_refresh", "false">> \notin {c[i] : i \in DOMAIN c}
        \/ c = << <<"comments_limit", "100">> >>}

\* The subjects the callers of the result cache ask for.
StoreUsers == {"alice"}

Idle == [op |-> "idle"]

NoInput == [kind |-> "None"]

Init ==
    /\ store = <<>>
    /\ now = 24 * 60 * 60
    /\ ticks = 0
    /\ writes = 0
    /\ last = Idle
    /\ lastPut = None
    /\ procs = <<>>
    /\ inp = NoInput
    /\ topics = None

\* What the file at path holds, None when there is no such file.
Content(st, path) == IF path \in DOMAIN st THEN st[path] ELSE None

\* A CacheManager built with cache_days reads the record of (username,
\* config_dict).
GetCachedResult(username, config_dict, cache_days, read) ==
    LET path == get_cache_path(username, config_dict)
        out == get_cached_result(store, username, config_dict, cache_days,
                                 now, read)
    IN  /\ read = "oserror" => path \in DOMAIN store
        /\ store' = out.store
        /\ last' = [op |-> "get_cached_result", username |-> username,
                    config |-> config_dict, cache_days |-> cache_days,
                    time |-> now, read |-> read,
                    found |-> Content(store, path),
                    ret |-> out.ret, raised |-> out.raised]
        /\ UNCHANGED <<now, ticks, writes, lastPut, inp, procs, topics>>

SaveResult(username, config_dict, analysis_result, io) ==
    LET path == get_cache_path(username, config_dict)
        out == save_result(store, username, config_dict, analysis_result,
                           now, io)
    IN  /\ writes < MaxWrites
        /\ writes' = writes + 1
        /\ store' = out.store
        /\ last' = [op |-> "save_result", username |-> username,
                    config |-> config_dict, payload |-> analysis_result,
                    time |-> now, io |-> io,
                    prior |-> Content(store, path),
                    raised |-> out.raised]
        /\ lastPut' =
              IF io = "ok"
              THEN [username |-> username, config |-> config_dict,
                    payload |-> analysis_result, time |-> now]
              ELSE IF io = "dump_fails" THEN None ELSE lastPut
        /\ UNCHANGED <<now, ticks, inp, procs, topics>>

\* The storage damages a record that save_result wrote.
Damage(path, damage) ==
    /\ writes < MaxWrites
    /\ path \in DOMAIN store
    /\ store[path].kind = "object"
    /\ store[path].timestamp.type = "number"
    /\ writes' = writes + 1
    /\ store' = Written(store, path, Damaged(store[path], damage))
    /\ last' = [op |-> "damage"]
    /\ lastPut' = None
    /\ UNCHANGED <<now, ticks, inp, procs, topics>>

\* Time passes: a second, or a day.
Tick(seconds) ==
    /\ ticks < MaxTicks
    /\ ticks' = ticks + 1
    /\ now' = now + seconds
    /\ last' = [op |-> "tick"]
    /\ UNCHANGED <<store, writes, lastPut, inp, procs, topics>>

Next ==
    \/ \E u \in StoreUsers, c \in StoreConfigs, d \in 0..MaxCacheDays,
          read \in {"ok", "oserror"} :
          GetCachedResult(u, c, d, read)
    \/ \E u \in StoreUsers, c \in StoreConfigs, x \in Payloads,
          io \in {"ok", "open_fails", "dump_fails"} :
          SaveResult(u, c, x, io)
    \/ \E path \in DOMAIN store, damage \in Damages : Damage(path, damage)
    \/ \E seconds \in {1, 24 * 60 * 60} : Tick(seconds)

Spec == Init /\ [][Next]_vars

-----------------------------------------------------------------------------
(* The fingerprint and the storage path as functions: SpecHash *)

InitHash ==
    /\ inp \in [s : Usernames, p : Configs, q : Configs]
    /\ store = <<>>
    /\ now = 24 * 60 * 60
    /\ ticks = 0
    /\ writes = 0
    /\ last = Idle
    /\ lastPut = None
    /\ procs = <<>>
    /\ topics = None

GenerateConfigHash ==
    /\ last.op # "_generate_config_hash"
    /\ last' = [op |-> "_generate_config_hash",
                p_hash |-> _generate_config_hash(inp.p),
                q_hash |-> _generate_config_hash(inp.q)]
    /\ UNCHANGED <<store, now, ticks, writes, lastPut, inp, procs, topics>>

GetCachePath ==
    /\ last.op # "get_cache_path"
    /\ last' = [op |-> "get_cache_path",
                p_path |-> get_cache_path(inp.s, inp.p),
                q_path |-> get_cache_path(inp.s, inp.q)]
    /\ UNCHANGED <<store, now, ticks, writes, lastPut, inp, procs, topics>>

NextHash == GenerateConfigHash \/ GetCachePath

SpecHash == InitHash /\ [][NextHash]_vars

-----------------------------------------------------------------------------
(* Claims about the result cache *)

\* The entries of a parameter mapping other than cache_days, force_refresh
\* and use_cache, as a set: what two mappings agree on when they differ in
\* key order and cache-control parameters only.
EffectiveEntries(d) ==
    {d[i] : i \in {j \in DOMAIN d :
                     d[j][1] \notin {"cache_days", "force_refresh", "use_cache"}}}

SameEffective(p, q) == EffectiveEntries(p) = EffectiveEntries(q)

\* C1: two parameter mappings that agree on every key other than cache_days,
\* force_refresh and use_cache have the same fingerprint, whatever the order
\* of their keys and whatever cache-control parameters they carry.
C1_FingerprintStable ==
    (last.op = "_generate_config_hash" /\ SameEffective(inp.p, inp.q))
        => last.p_hash = last.q_hash

\* Two mappings with the same two analysis parameters in opposite orders
\* were fingerprinted.
C1_Witness ==
    /\ last.op = "_generate_config_hash"
    /\ inp.p = << <<"include_post_bodies", "true">>, <<"comments_limit", "50">> >>
    /\ inp.q = << <<"comments_limit", "50">>, <<"include_post_bodies", "true">> >>

\* What get_cached_result returned is the record of the most recent
\* save_result.
ReturnedPut ==
    /\ last.ret.kind = "object"
    /\ last.ret.username = lastPut.username
    /\ last.ret.timestamp = [type |-> "number", value |-> lastPut.time]
    /\ last.ret.result = lastPut.payload

\* A get_cached_result whose read met no I/O error, for the subject of the
\* most recent save_result, no later than the horizon after it.
GetAfterPut ==
    /\ last.op = "get_cached_result"
    /\ last.read = "ok"
    /\ lastPut # None
    /\ last.username = lastPut.username
    /\ last.time - lastPut.time <= last.cache_days * 86400

\* C2: after save_result(s, P, x), a get_cached_result(s, P') within the
\* retention horizon returns the record of that save for every P' that
\* differs from P only in key order or in cache_days, force_refresh and
\* use_cache.
C2_SameLocation ==
    (GetAfterPut /\ SameEffective(last.config, lastPut.config))
        => (ReturnedPut /\ ~last.raised)

\* A record saved with force_refresh = true was read back by a request
\* without force_refresh.
C2_Witness ==
    /\ GetAfterPut
    /\ lastPut.config =
          << <<"force_refresh", "true">>, <<"comments_limit", "50">> >>
    /\ last.config = << <<"comments_limit", "50">> >>
    /\ ReturnedPut

GetOfRecord ==
    /\ last.op = "get_cached_result"
    /\ last.read = "ok"
    /\ last.found.kind = "object"
    /\ last.found.timestamp.type = "number"

\* C4: a stored record is returned iff now - cached_at <= horizon; a record
\* whose age equals the horizon is still fresh, an older one is absent.
C4_ExpiryBoundary ==
    GetOfRecord =>
        LET age == last.time - last.found.timestamp.value
            horizon == last.cache_days * 86400
        IN  /\ age <= horizon => last.ret = last.found
            /\ age > horizon => last.ret = None

\* A record whose age is exactly the horizon of one day was returned.
C4_Witness ==
    /\ GetOfRecord
    /\ last.cache_days = 1
    /\ last.time - last.found.timestamp.value = 86400
    /\ last.ret = last.found

\* A step that is a call of get_cached_result.
GetStep == last'.op = "get_cached_result" /\ last' # last

\* C5: get_cached_result leaves the result store as it is in every outcome:
\* miss, expired, fresh hit, malformed record; a step that changes the file
\* of a key is a write, never a read.
C5_GetIsReadOnly ==
    [][GetStep => store' = store]_vars

\* An expired record was ignored by a read and is still stored as written.
C5_Witness ==
    /\ GetOfRecord
    /\ last.time - last.found.timestamp.value > last.cache_days * 86400
    /\ last.ret = None
    /\ store[get_cache_path(last.username, last.config)] = last.found

\* A get_cached_result that found a file it cannot use: unparsable, not a
\* JSON object, a timestamp that is no number or no timestamp, or a file
\* that open() fails on.
GetOfMalformed ==
    /\ last.op = "get_cached_result"
    /\ last.found # None
    /\ \/ last.read = "oserror"
       \/ last.found.kind # "object"
       \/ last.found.timestamp.type # "number"

\* C6: a malformed or unreadable stored record makes get_cached_result
\* return absent, and it never raises.
C6_MalformedIsAbsent ==
    GetOfMalformed => (last.ret = None /\ ~last.raised)

\* The part of C6 that holds of every malformed record: no exception
\* leaves get_cached_result.
C6_NeverRaises ==
    last.op = "get_cached_result" => ~last.raised

\* C7: after a successful save_result the file of key(s, p) holds username
\* = s, timestamp = the time of that call, config_hash = fingerprint(p) and
\* result = payload, whatever it held before; it is the record of the most
\* recent successful call until the next write.
C7_SaveOverwrites ==
    lastPut # None =>
        LET path == get_cache_path(lastPut.username, lastPut.config) IN
        /\ path \in DOMAIN store
        /\ store[path].kind = "object"
        /\ store[path].username = lastPut.username
        /\ store[path].timestamp = [type |-> "number", value |-> lastPut.time]
        /\ store[path].result = lastPut.payload
        /\ store[path].config_hash =
              <<"sha256", << <<"comments_limit",
                  IF <<"comments_limit", "50">> \in EffectiveEntries(lastPut.config)
                  THEN "50" ELSE "100">> >> >>

\* A save_result replaced an older record of another payload.
C7_Witness ==
    /\ last.op = "save_result"
    /\ last.io = "ok"
    /\ last.prior.kind = "object"
    /\ last.prior.timestamp.type = "number"
    /\ last.prior.timestamp.value < last.time
    /\ last.prior.result # last.payload
    /\ store[get_cache_path(last.username, last.config)].result = last.payload

\* A save_result that failed: open() or json.dump raised.
FailedSave ==
    /\ writes' # writes
    /\ last'.op = "save_result"
    /\ last'.io # "ok"

\* The get_cached_result that follows a failed save_result over a record
\* that is fresh at the time of the read, for the same key.
GetAfterFailedSave ==
    /\ last.op = "save_result"
    /\ last.io # "ok"
    /\ last.prior.kind = "object"
    /\ last.prior.timestamp.type = "number"
    /\ last'.op = "get_cached_result"
    /\ last'.read = "ok"
    /\ get_cache_path(last'.username, last'.config)
         = get_cache_path(last.username, last.config)
    /\ last'.time - last.prior.timestamp.value <= last'.cache_days * 86400

\* C20: a failed result-cache write is a no-op on storage: if save_result
\* fails at any point (open fails, or serialization fails after the file
\* was opened for writing) the store is left as it was before the call, so
\* a fresh record previously stored at that key is still returned by the
\* next get_cached_result.
C20_FailedWriteIsNoOp ==
    [][/\ FailedSave => store' = store
       /\ GetAfterFailedSave => last'.ret = last.prior]_vars

\* What does hold of C20: a save_result that cannot open the file leaves
\* the store as it was.
C20_OpenFailureIsNoOp ==
    [][FailedSave /\ last'.io = "open_fails" => store' = store]_vars

\* A failed serialization replaced a record by content that does not parse.
C20_RecordLost ==
    /\ last.op = "save_result"
    /\ last.io = "dump_fails"
    /\ last.prior.kind = "object"
    /\ Content(store, get_cache_path(last.username, last.config)) = Unparsable

\* The value d gives to key k.
ValueAt(d, k) == d[CHOOSE i \in DOMAIN d : d[i][1] = k][2]

\* p and q differ in the value of a key other than cache_days,
\* force_refresh and use_cache.
DifferInValue(p, q) ==
    \E k \in (KeysOf(p) \cap KeysOf(q)) \ CacheControlKeys :
        ValueAt(p, k) # ValueAt(q, k)

\* C32: for the same subject, parameter mappings that differ in the value
\* of a key other than cache_days, force_refresh and use_cache map to
\* different storage keys, and a record put under one of them is never
\* returned by a get under the other.
C32_FingerprintCovers ==
    last.op = "get_cached_result" =>
        \A c \in StoreConfigs :
            DifferInValue(c, last.config) =>
                /\ get_cache_path(last.username, c)
                      # get_cache_path(last.username, last.config)
                /\ last.ret.kind = "object" =>
                      last.ret.config_hash # _generate_config_hash(c)

\* A record was put with comments_limit = 50 and a get with
\* comments_limit = 100 found nothing.
C32_Witness ==
    /\ last.op = "get_cached_result"
    /\ last.read = "ok"
    /\ lastPut # None
    /\ lastPut.username = last.username
    /\ lastPut.config = << <<"comments_limit", "50">> >>
    /\ last.config = << <<"comments_limit", "100">> >>
    /\ Content(store, get_cache_path(lastPut.username, lastPut.config)).kind = "object"
    /\ last.found = None
    /\ last.ret = None

-----------------------------------------------------------------------------
(* The aggregation as a function: SpecAgg *)

SeqsUpTo(S, n) == UNION {[1..m -> S] : m \in 0..n}

\* Comments as fetch_comments builds them, without parent_author, with or
\* without a parent context; the posts share the id "c1" with the comments.
SomeComments ==
    {Comment(id, "python", t, NoString, ctx) :
        id \in {"c1", "c2"}, t \in {1, 2}, ctx \in {NoString, "parent text"}}

SomePosts == {Post(id, "python", t) : id \in {"c1", "p1"}, t \in {1, 2}}

InitAgg ==
    /\ inp \in [comments : SeqsUpTo(SomeComments, MaxComments),
                posts : SeqsUpTo(SomePosts, MaxPosts),
                max_activities : 0..MaxCount]
    /\ store = <<>>
    /\ now = 24 * 60 * 60
    /\ ticks = 0
    /\ writes = 0
    /\ last = Idle
    /\ lastPut = None
    /\ procs = <<>>
    /\ topics = None

AnalyzeRedditActivity(llm) ==
    LET out == analyze_reddit_activity(inp.comments, inp.posts,
                                       inp.max_activities, llm)
    IN  /\ last = Idle
        /\ llm # "text" => out.llm_called
        /\ last' = [op |-> "analyze_reddit_activity", llm |-> llm,
                    ret |-> out.ret, raised |-> out.raised,
                    activities_for_llm |-> out.activities_for_llm,
                    llm_called |-> out.llm_called]
        /\ UNCHANGED <<store, now, ticks, writes, lastPut, inp, procs, topics>>

NextAgg == \E llm \in LlmOutcomes : AnalyzeRedditActivity(llm)

SpecAgg == InitAgg /\ [][NextAgg]_vars

-----------------------------------------------------------------------------
(* Claims about the aggregation *)

IdsOf(activities) == {activities[i].id : i \in DOMAIN activities}

\* C9: the activities selected for the model never hold two activities
\* with the same id, and the selected activity of an id that a comment
\* carries is a comment: the first comment of that id.
C9_DedupFirstWins ==
    last.op = "analyze_reddit_activity" =>
        LET sel == last.activities_for_llm IN
        /\ \A i, j \in DOMAIN sel : sel[i].id = sel[j].id => i = j
        /\ \A i \in DOMAIN sel :
              sel[i].id \in IdsOf(inp.comments) =>
                  \E k \in DOMAIN inp.comments :
                      /\ inp.comments[k] = sel[i]
                      /\ \A m \in 1..(k - 1) : inp.comments[m].id # sel[i].id

\* An id carried by a comment and by a more recent post was sent to the
\* model once, as the comment.
C9_Witness ==
    /\ last.op = "analyze_reddit_activity"
    /\ last.llm_called
    /\ \E k \in DOMAIN inp.comments, m \in DOMAIN inp.posts :
          /\ inp.comments[k].id = inp.posts[m].id
          /\ inp.posts[m].created_utc > inp.comments[k].created_utc
          /\ \E i \in DOMAIN last.activities_for_llm :
                last.activities_for_llm[i] = inp.comments[k]

\* C10: for every max_activities n >= 0 the number of activities selected
\* is min(n, number of distinct ids of the comments and posts together),
\* and n = 0 selects none without an exception.
C10_BoundedOutput ==
    last.op = "analyze_reddit_activity" =>
        LET unique == Cardinality(IdsOf(inp.comments) \cup IdsOf(inp.posts))
            n == inp.max_activities
        IN  /\ Len(last.activities_for_llm) = IF n < unique THEN n ELSE unique
            /\ n = 0 => (last.activities_for_llm = <<>> /\ ~last.raised)

\* Three distinct ids were cut down to two activities.
C10_Witness ==
    /\ last.op = "analyze_reddit_activity"
    /\ inp.max_activities = 2
    /\ Cardinality(IdsOf(inp.comments) \cup IdsOf(inp.posts)) = 3
    /\ Len(last.activities_for_llm) = 2

\* Position of the activity of an id in a list without repeated ids.
IndexOf(activities, id) ==
    CHOOSE i \in DOMAIN activities : activities[i].id = id

\* C11: the selected sequence is non-increasing in created_utc, two
\* activities of equal created_utc keep the relative order they had after
\* deduplication, and every kept activity is at least as recent as every
\* dropped one.
C11_SortCorrect ==
    last.op = "analyze_reddit_activity" =>
        LET sel == last.activities_for_llm
            deduped == Combine(inp.comments, inp.posts)
        IN  /\ \A i, j \in DOMAIN sel :
                  i < j => sel[i].created_utc >= sel[j].created_utc
            /\ \A i, j \in DOMAIN sel :
                  (i < j /\ sel[i].created_utc = sel[j].created_utc) =>
                      IndexOf(deduped, sel[i].id) < IndexOf(deduped, sel[j].id)
            /\ \A i \in DOMAIN sel, k \in DOMAIN deduped :
                  deduped[k].id \notin IdsOf(sel) =>
                      sel[i].created_utc >= deduped[k].created_utc

\* Of three distinct activities the two of the most recent time were kept in their order after deduplication, the
\* older one, first in the input, was dropped.
C11_Witness ==
    /\ last.op = "analyze_reddit_activity"
    /\ Len(last.activities_for_llm) = 2
    /\ last.activities_for_llm[1].created_utc = 2
    /\ last.activities_for_llm[2].created_utc = 2
    /\ Len(Combine(inp.comments, inp.posts)) = 3
    /\ Combine(inp.comments, inp.posts)[1].created_utc = 1

\* C18: with no comments and no posts analyze_reddit_activity returns the
\* fixed text "No comments or posts to analyze.", raises nothing and does
\* not call the language model.
C18_EmptyIsNotAnError ==
    (last.op = "analyze_reddit_activity"
     /\ inp.comments = <<>> /\ inp.posts = <<>>)
    => /\ last.ret = "No comments or posts to analyze."
       /\ ~last.raised
       /\ ~last.llm_called

\* The analysis ran on empty collections with room for activities.
C18_Witness ==
    /\ last.op = "analyze_reddit_activity"
    /\ inp.comments = <<>> /\ inp.posts = <<>>
    /\ inp.max_activities = MaxCount
    /\ last.ret = "No comments or posts to analyze."

-----------------------------------------------------------------------------
(* The HTTP entry point over the stores: SpecApi *)

\* The requests of the model: one subject, the cache switches free, the
\* other fields at one value.
Requests ==
    [username : StoreUsers, comments_limit : {"50"},
     include_parent_context : {TRUE}, llm_activities_limit : {MaxCount},
     force_refresh : BOOLEAN, use_cache : BOOLEAN]

\* The environments: at most one required variable unset.
Environments ==
    [missing : {{}} \cup {{RequiredVars[i]} : i \in DOMAIN RequiredVars},
     cache_days : 0..MaxCacheDays]

\* What the activity source holds for the subject.
RawComments ==
    {<<>>,
     <<[id |-> "c1", subreddit |-> "python", created_utc |-> 2,
        parent |-> "parent text"]>>}

RawPosts ==
    {<<>>, <<[id |-> "p1", subreddit |-> "python", created_utc |-> 1]>>}

\* What fetching the description of a topic comes to.
FetchOutcomes ==
    {[ok |-> FALSE],
     [ok |-> TRUE, public_description |-> <<>>,
      description |-> <<" ", "a", "\n", "b", "\n">>]}

\* An outcome that has not gone out to the caller yet.
Pending == last.op \in {"analyze_user", "from_env_and_args"}

\* A request arrives and is handled; last holds it until its response is
\* sent.  Inputs the handler does not get to are held at one value.
AnalyzeUser(req, env, world) ==
    LET path == get_cache_path(req.username, ConfigDict(req, env))
        subs == unique_subreddits(
                    fetch_comments(world.raw_comments,
                                   req.include_parent_context),
                    fetch_posts(world.raw_posts))
        out == analyze_user(store, topics, req, env, now, world)
    IN  /\ ~Pending
        /\ world.order \in Orders(subs)
        /\ world.fetch \in [subs -> FetchOutcomes]
        /\ world.read = "oserror" =>
              Called(out.calls, "get_cached_result") /\ path \in DOMAIN store
        /\ ~Called(out.calls, "fetch_redditor") => world.redditor
        /\ ~Called(out.calls, "fetch_comments") =>
              world.raw_comments = <<>> /\ world.raw_posts = <<>>
        /\ world.raw_comments = <<>> /\ world.raw_posts = <<>> =>
              world.llm = "text"
        /\ world.topics_read = "oserror" => topics # None
        /\ out.topics = topics => world.topics_io = "ok"
        /\ ~(req.use_cache /\ Called(out.calls, "fetch_comments")) =>
              world.io = "ok"
        /\ store' = out.store
        /\ topics' = out.topics
        /\ last' = [op |-> "analyze_user", req |-> req, env |-> env,
                    time |-> now, found |-> Content(store, path),
                    read |-> world.read, redditor |-> world.redditor,
                    raw_comments |-> world.raw_comments,
                    raw_posts |-> world.raw_posts,
                    llm |-> world.llm, io |-> world.io,
                    status |-> out.status, detail |-> out.detail,
                    ret |-> out.ret, calls |-> out.calls]
        /\ lastPut' = IF out.store = store THEN lastPut ELSE None
        /\ UNCHANGED <<now, ticks, writes, inp, procs>>

\* The response of the request goes out to the client: a return value as
\* status 200, an HTTPException as its status and detail; the Config or
\* the ValueError goes to the command line program.
Respond ==
    /\ Pending
    /\ last' = Idle
    /\ UNCHANGED <<store, now, ticks, writes, lastPut, inp, procs, topics>>

\* The language model during a request: it answers, or the call to it
\* fails.
LlmUpOrDown == {"text", "request_exception"}

\* The command line program starts and builds its Config from the
\* environment.
FromEnvAndArgs(env) ==
    /\ last = Idle
    /\ \E out \in {from_env_and_args(env)} :
          last' = [op |-> "from_env_and_args", env |-> env,
                   raised |-> out.raised, error |-> out.error,
                   calls |-> out.calls]
    /\ UNCHANGED <<store, now, ticks, writes, lastPut, inp, procs, topics>>

\* What the storage can do when it is asked for an existing file.
Reads(exists) == IF exists THEN {"ok", "oserror"} ELSE {"ok"}

\* What the storage can do when it is asked to write.
Ios(asked) == IF asked THEN {"ok", "open_fails", "dump_fails"} ELSE {"ok"}

\* What the storage, the activity source and the language model do during
\* the request req, as far as the handler gets to them: the subreddits are
\* those of the activities fetched, the language model is up or down
\* whenever the source has activity to analyze.
Worlds(req, env) ==
    LET path == get_cache_path(req.username, ConfigDict(req, env))
        consult == env.missing = {} /\ req.use_cache /\ ~req.force_refresh
    IN  UNION {
          LET proceeds ==
                  /\ env.missing = {}
                  /\ consult =>
                        get_cached_result(store, req.username,
                                          ConfigDict(req, env),
                                          env.cache_days, now, read).ret = None
              sources == IF proceeds /\ redditor
                         THEN RawComments \X RawPosts
                         ELSE {<<(<<>>), (<<>>)>>}
          IN  UNION {
                LET subs == unique_subreddits(
                                fetch_comments(raw[1],
                                               req.include_parent_context),
                                fetch_posts(raw[2]))
                IN  [read : {read}, redditor : {redditor},
                     raw_comments : {raw[1]}, raw_posts : {raw[2]},
                     order : Orders(subs), fetch : [subs -> FetchOutcomes],
                     topics_read : Reads(topics # None /\ proceeds
                                            /\ redditor),
                     topics_io : Ios(subs # {}),
                     llm : IF raw[1] = <<>> /\ raw[2] = <<>>
                           THEN {"text"} ELSE LlmUpOrDown,
                     io : Ios(proceeds /\ redditor /\ req.use_cache)]
                : raw \in sources }
          : read \in Reads(consult /\ path \in DOMAIN store),
            redditor \in IF env.missing = {} THEN BOOLEAN ELSE {TRUE} }

\* Requests, a record left under the location of a request, and time.
NextApi ==
    \/ /\ ~Pending
       /\ \E req \in Requests, env \in Environments :
             \E world \in Worlds(req, env) : AnalyzeUser(req, env, world)
    \/ Respond
    \/ \E env \in Environments :
          env.cache_days = MaxCacheDays /\ FromEnvAndArgs(env)
    \/ \E req \in Requests, env \in Environments, x \in Payloads :
          /\ env.missing = {} /\ req.use_cache /\ ~req.force_refresh
          /\ SaveResult(req.username, ConfigDict(req, env), x, "ok")
    \/ \E seconds \in {1, 24 * 60 * 60} : Tick(seconds)

SpecApi == Init /\ [][NextApi]_vars

\* C8, first half: save_result never raises, whatever open() and
\* json.dump do (an invariant of Spec, where both may fail).
C8_SaveNeverRaises == last.op = "save_result" => ~last.raised

\* C8: a failure while persisting the result record does not abort the
\* request: with use_cache true, a subject that exists and has activity,
\* no record to serve and a storage that fails to write, analyze_user
\* still returns the freshly computed payload {user_info, llm_analysis}.
C8_WriteFailureDoesNotAbort ==
    (/\ last.op = "analyze_user"
     /\ last.env.missing = {}
     /\ last.req.use_cache
     /\ last.found = None
     /\ last.redditor
     /\ last.raw_comments # <<>>
     /\ last.io # "ok")
    => /\ last.status = 200
       /\ last.ret = [user_info |-> "info",
                      llm_analysis |-> LlmResponse(last.llm)]

IsRequest == last.op = "analyze_user"

\* The request passed validation and asks for the cache.
AsksCache ==
    /\ last.env.missing = {}
    /\ last.req.use_cache
    /\ ~last.req.force_refresh

\* The store held a readable record for the request that was not older
\* than the horizon.
FoundFresh ==
    /\ last.found # None
    /\ last.read = "ok"
    /\ last.time - last.found.timestamp.value
          <= last.env.cache_days * 24 * 60 * 60

\* C17: in a request the result cache is consulted before any external
\* collaborator is called; with use_cache true, force_refresh false and a
\* fresh record for (username, parameters) the request returns the cached
\* payload, calls neither the activity source nor the topic-description
\* fetch nor the language model, and writes no store.
C17_CacheFirst ==
    /\ [](IsRequest =>
            /\ \A i \in DOMAIN last.calls :
                  last.calls[i] = "get_cached_result" => i = 1
            /\ (AsksCache /\ last.calls # <<>>) =>
                  last.calls[1] = "get_cached_result"
            /\ (AsksCache /\ FoundFresh) =>
                  /\ last.status = 200
                  /\ last.ret = last.found.result
                  /\ last.calls = <<"get_cached_result">>)
    /\ [][(last'.op = "analyze_user" /\ last.op # "analyze_user"
           /\ last'.env.missing = {} /\ last'.req.use_cache
           /\ ~last'.req.force_refresh
           /\ last'.found # None /\ last'.read = "ok"
           /\ last'.time - last'.found.timestamp.value
                 <= last'.env.cache_days * 24 * 60 * 60)
          => (store' = store /\ topics' = topics)]_vars

\* A record saved a second before was returned by a request that called
\* nothing but the cache.
C17_Witness ==
    /\ IsRequest
    /\ AsksCache
    /\ FoundFresh
    /\ last.time - last.found.timestamp.value = 1
    /\ last.ret \in Payloads
    /\ last.calls = <<"get_cached_result">>

\* The location of the record of the last request.
PathOfRequest == get_cache_path(last.req.username, ConfigDict(last.req, last.env))

\* The last request was for an existing subject with activity at the
\* source, passed validation, found no record to serve and had use_cache
\* true.
ComputesAndCaches ==
    /\ IsRequest
    /\ last.env.missing = {}
    /\ last.req.use_cache
    /\ last.found = None
    /\ last.redditor
    /\ last.raw_comments # <<>>

\* C26: when the model call fails during analyze_user with use_cache true,
\* the error text is returned and stored as the llm_analysis of the result
\* record, from where a following request within the retention horizon is
\* served without calling the model again.
C26_FailureIsCached ==
    (ComputesAndCaches /\ last.llm = "request_exception" /\ last.io = "ok")
    => /\ last.status = 200
       /\ last.ret.llm_analysis = LlmResponse("request_exception")
       /\ Content(store, PathOfRequest).kind = "object"
       /\ Content(store, PathOfRequest).result.llm_analysis
             = LlmResponse("request_exception")

\* The request of C26 ended without a call of the model and without a
\* record.
C26_NothingCached ==
    /\ ComputesAndCaches
    /\ last.llm = "request_exception"
    /\ last.io = "ok"
    /\ last.status = 404
    /\ ~Called(last.calls, "llm")
    /\ Content(store, PathOfRequest) = None

\* The positions of the calls of name in the log of calls.
Positions(calls, name) == {i \in DOMAIN calls : calls[i] = name}

\* A request was handled in this step.
RequestStep == last'.op = "analyze_user" /\ last.op # "analyze_user"

\* C27: in every analyze_user invocation the result record is written at
\* most once and only after the language-model analysis has returned; an
\* invocation that ends in 'no activity found', in 'user not found' or in
\* a configuration failure reports the failure, does not call the language
\* model and writes no result record.
C27_WriteOnSuccessOnly ==
    /\ [](IsRequest =>
            /\ Cardinality(Positions(last.calls, "save_result")) <= 1
            /\ \A i \in Positions(last.calls, "save_result") :
                  \E j \in Positions(last.calls, "llm") : j < i
            /\ last.status # 200 =>
                  /\ last.ret = None
                  /\ last.detail # <<>>
                  /\ ~Called(last.calls, "llm")
                  /\ ~Called(last.calls, "save_result"))
    /\ [][(RequestStep /\ last'.status # 200) => store' = store]_vars
    /\ [][(RequestStep /\ store' # store) =>
            Called(last'.calls, "save_result")]_vars

\* A request for a subject without activity was answered 'no activity
\* found' after the fetches, without a call of the model and without a
\* record.
C27_Witness ==
    /\ IsRequest
    /\ last.status = 404
    /\ last.detail = <<"No comments or posts found">>
    /\ last.raw_comments = <<>>
    /\ last.raw_posts = <<>>
    /\ Called(last.calls, "fetch_posts")
    /\ ~Called(last.calls, "llm")
    /\ Content(store, PathOfRequest) = None

\* C35: with use_cache = false, analyze_user neither reads nor writes the
\* result cache: the result store is identical before and after the
\* invocation and a fresh record that exists for the same key is not
\* returned; the topic-description store is still read.
C35_NoCacheUse ==
    /\ []((IsRequest /\ ~last.req.use_cache) =>
            /\ ~Called(last.calls, "get_cached_result")
            /\ ~Called(last.calls, "save_result")
            /\ (last.found # None /\ last.found.kind = "object") =>
                  last.ret # last.found.result
            /\ (last.env.missing = {} /\ last.redditor) =>
                  Called(last.calls, "get_subreddit_descriptions"))
    /\ [][(RequestStep /\ ~last'.req.use_cache) => store' = store]_vars

\* A request with use_cache = false went to the activity source and to the
\* topic descriptions although a record saved a second before was stored
\* for it, and the record is still there.
C35_Witness ==
    /\ IsRequest
    /\ ~last.req.use_cache
    /\ ~last.req.force_refresh
    /\ last.env.missing = {}
    /\ FoundFresh
    /\ last.time - last.found.timestamp.value = 1
    /\ Called(last.calls, "fetch_comments")
    /\ Called(last.calls, "get_subreddit_descriptions")
    /\ last.ret # last.found.result
    /\ Content(store, PathOfRequest) = last.found

\* The last request had force_refresh and use_cache, passed validation, was
\* for an existing subject with activity at the source, and met a storage
\* that works.
ForcedRefresh ==
    /\ IsRequest
    /\ last.req.force_refresh
    /\ last.req.use_cache
    /\ last.env.missing = {}
    /\ last.redditor
    /\ last.raw_comments # <<>> \/ last.raw_posts # <<>>
    /\ last.io = "ok"

\* C36: with force_refresh = true and use_cache = true, analyze_user skips
\* the result-cache read even when a fresh record exists and on completion
\* overwrites the result record with the newly computed payload, which the
\* next request without force_refresh is served.
C36_ForceRefreshOverwrites ==
    /\ (IsRequest /\ last.req.force_refresh) =>
          ~Called(last.calls, "get_cached_result")
    /\ ForcedRefresh =>
          /\ last.status = 200
          /\ Called(last.calls, "save_result")
          /\ Content(store, PathOfRequest) # None
          /\ Content(store, PathOfRequest).kind = "object"
          /\ Content(store, PathOfRequest).result = last.ret
          /\ Content(store, PathOfRequest).timestamp = Number(last.time)

\* What does hold of C36: a request with force_refresh does not read the
\* result cache, whatever is stored.
C36_SkipsRead ==
    (IsRequest /\ last.req.force_refresh) =>
        ~Called(last.calls, "get_cached_result")

\* A forced refresh of a subject with activity ended in 'no activity
\* found', and the record stored before is still the one stored.
C36_OldRecordKept ==
    /\ ForcedRefresh
    /\ last.found # None
    /\ last.found.kind = "object"
    /\ last.status = 404
    /\ ~Called(last.calls, "save_result")
    /\ Content(store, PathOfRequest) = last.found

\* C28: when any of the Reddit client id, Reddit client secret or Google
\* API key is absent, analyze_user and Config.from_env_and_args fail with
\* an error before any call to the activity source, the topic-description
\* fetch or the language model, and before any cache read or write.
C28_MissingConfigIsFatal ==
    /\ []((IsRequest /\ last.env.missing # {}) =>
            /\ last.status = 500
            /\ last.detail = <<"Missing env var: ",
                               FirstMissing(RequiredVars, last.env.missing)>>
            /\ last.calls = <<>>)
    /\ []((last.op = "from_env_and_args" /\ last.env.missing # {}) =>
            /\ last.raised
            /\ last.calls = <<>>)
    /\ []((last.op = "from_env_and_args" /\ last.env.missing = {}) =>
            ~last.raised)
    /\ [][(last'.op \in {"analyze_user", "from_env_and_args"}
           /\ last' # last /\ last'.env.missing # {})
          => (store' = store /\ topics' = topics)]_vars

\* A request without the Google API key was refused although a fresh
\* record for it was stored; nothing was called.
C28_Witness ==
    /\ IsRequest
    /\ last.env.missing = {"google_api_key"}
    /\ last.req.use_cache
    /\ ~last.req.force_refresh
    /\ last.found # None
    /\ last.found.kind = "object"
    /\ last.status = 500
    /\ last.calls = <<>>

\* Config.from_env_and_args raised for a missing Reddit client secret.
C28_ConfigRaised ==
    /\ last.op = "from_env_and_args"
    /\ last.env.missing = {"reddit_client_secret"}
    /\ last.raised
    /\ last.error = <<"Missing required environment variables: ",
                      "REDDIT_CLIENT_SECRET">>

-----------------------------------------------------------------------------
(* The topic description cache under its callers: SpecTopics *)

TopicNames == {"python", "rust"}

\* The sets of topics asked for.
TopicSets == {{}, {"python"}, {"python", "rust"}}

\* How often sub occurs in the log of fetches.
Count(fetched, sub) == Cardinality({i \in DOMAIN fetched : fetched[i] = sub})

\* A CacheManager built with cache_days resolves the topics of subreddits,
\* iterated in that order; fetch is what the collaborator does for a topic,
\* read and io what the storage does.  Inputs the call does not get to are
\* held at one value.
GetSubredditDescriptions(subreddits, force_refresh, cache_days, fetch, read, io) ==
    \E out \in {get_subreddit_descriptions(topics, subreddits, force_refresh,
                                           cache_days, now, fetch, read, io)} :
    \E requested \in {{subreddits[i] : i \in DOMAIN subreddits}} :
    \E counts \in {[sub \in requested |-> Count(out.fetched, sub)]} :
        /\ \A sub \in requested :
              counts[sub] = 0 => fetch[sub] = [ok |-> FALSE]
        /\ out.saves = 0 => io = "ok"
        /\ topics' = out.topics
        /\ last' = [op |-> "get_subreddit_descriptions",
                    subreddits |-> requested,
                    force_refresh |-> force_refresh,
                    cache_days |-> cache_days, time |-> now,
                    fetch |-> fetch, read |-> read, io |-> io,
                    before |-> topics,
                    cache |-> get_cached_subreddit_descriptions(topics, read),
                    ret |-> out.ret, raised |-> out.raised,
                    fetched |-> counts, saves |-> out.saves]
        /\ UNCHANGED <<store, now, ticks, writes, lastPut, inp, procs>>

\* Time passes between two calls: a second, or the time to live.
Elapse(seconds) ==
    /\ ticks < MaxTicks
    /\ ticks' = ticks + 1
    /\ now' = now + seconds
    /\ UNCHANGED <<store, writes, last, lastPut, inp, procs, topics>>

NextTopics ==
    \/ \E requested \in TopicSets, force_refresh \in BOOLEAN,
          cache_days \in {MaxCacheDays} :
          \E subreddits \in Orders(requested),
             fetch \in [requested -> FetchOutcomes],
             read \in Reads(topics # None), io \in Ios(requested # {}) :
             GetSubredditDescriptions(subreddits, force_refresh, cache_days,
                                      fetch, read, io)
    \/ \E seconds \in {1, MaxCacheDays * 24 * 60 * 60} : Elapse(seconds)

SpecTopics == Init /\ [][NextTopics]_vars

\* Content of the topic store that this program did not write: JSON that
\* is not a mapping, and mappings with an entry that is not an object, has
\* no description, has no timestamp or has a timestamp that is a string.
ForeignStores ==
    {[kind |-> "array"],
     Mapping("python" :> [kind |-> "string"]),
     Mapping("python" :> [timestamp |-> Number(24 * 60 * 60)]),
     Mapping("python" :> [desc |-> <<"a">>, timestamp |-> [type |-> "missing"]]),
     Mapping("python" :> [desc |-> <<"a">>, timestamp |-> [type |-> "string"]])}

InitForeign ==
    /\ topics \in ForeignStores
    /\ store = <<>>
    /\ now = 24 * 60 * 60
    /\ ticks = 0
    /\ writes = 0
    /\ last = Idle
    /\ lastPut = None
    /\ procs = <<>>
    /\ inp = NoInput

\* The topic description cache over a store of foreign content.
SpecForeign == InitForeign /\ [][NextTopics]_vars

-----------------------------------------------------------------------------
(* Claims about the topic description cache *)

IsCall == last.op = "get_subreddit_descriptions"

\* The time to live of the last call, in seconds.
Ttl == last.cache_days * 24 * 60 * 60

\* C12: for each requested topic the fetch is skipped and the cached
\* description is returned unchanged iff force_refresh is false, the
\* mapping loaded from the store has an entry for the topic and
\* now - cached_at < ttl; in every other case the description is fetched
\* exactly once.
C12_PerTopicDecision ==
    IsCall =>
        \A sub \in last.subreddits :
            LET entries == last.cache.entries
                hit == /\ ~last.force_refresh
                       /\ sub \in DOMAIN entries
                       /\ last.time - entries[sub].timestamp.value < Ttl
            IN  /\ hit => /\ last.fetched[sub] = 0
                          /\ last.ret[sub] = entries[sub].desc
                /\ ~hit => last.fetched[sub] = 1

\* An entry whose age equals the time to live was refreshed.
C12_Witness ==
    /\ IsCall
    /\ ~last.force_refresh
    /\ "python" \in last.subreddits
    /\ "python" \in DOMAIN last.cache.entries
    /\ last.time - last.cache.entries["python"].timestamp.value = Ttl
    /\ last.fetched["python"] = 1

\* A call follows a call, with or without time passing in between.
CallAfterCall ==
    /\ last.op = "get_subreddit_descriptions"
    /\ last'.op = "get_subreddit_descriptions"
    /\ last' # last

\* The second of two calls comes within its time to live of the first and
\* neither forces a refresh.
WithinTtl ==
    /\ CallAfterCall
    /\ ~last.force_refresh /\ ~last'.force_refresh
    /\ last'.time - last.time < last'.cache_days * 24 * 60 * 60

\* The store the first call left is the one the second call loads: the
\* first did not fail to write it, the second did not fail to read it.
StoreCarriedOver ==
    /\ last.saves = 1 => last.io = "ok"
    /\ last'.read = "ok"

FetchFailed(call, x) ==
    /\ x \in call.subreddits
    /\ call.fetched[x] = 1
    /\ ~call.fetch[x].ok

\* The store holds the sentinel for x with the time of the last call.
SentinelStored(x) ==
    /\ topics.kind = "object"
    /\ x \in DOMAIN topics.entries
    /\ topics.entries[x] = [desc |-> CouldNotFetch,
                            timestamp |-> Number(last.time)]

\* The call after a failed fetch of x asks for x again, unforced and within
\* its time to live.
RetryWithinTtl(x) ==
    /\ CallAfterCall
    /\ FetchFailed(last, x)
    /\ x \in last'.subreddits
    /\ ~last'.force_refresh
    /\ last'.time - last.time < last'.cache_days * 24 * 60 * 60

C15_Complete ==
    IsCall => (~last.raised /\ DOMAIN last.ret = last.subreddits)

\* Two topics were asked for with the store unreadable and unwritable and
\* one fetch failing, and both came back.
C15_Witness ==
    /\ IsCall
    /\ last.subreddits = {"python", "rust"}
    /\ last.read = "oserror"
    /\ last.io = "dump_fails"
    /\ ~last.fetch["python"].ok
    /\ last.fetch["rust"].ok
    /\ DOMAIN last.ret = {"python", "rust"}

\* No description was fetched in the last call.
NothingFetched == \A x \in last.subreddits : last.fetched[x] = 0

\* C16: a call opens the persisted store for writing at most once, and
\* only if it added or refreshed an entry; a call in which every requested
\* topic is a fresh hit, or that asks for no topic, leaves the persisted
\* store as it was.
C16_WritesOnlyWhenUpdated ==
    IsCall =>
        /\ last.saves <= 1
        /\ last.saves = 1 => ~NothingFetched
        /\ NothingFetched => (last.saves = 0 /\ topics = last.before)

\* Two topics were both served from the cache and the store was not
\* written.
C16_Witness ==
    /\ IsCall
    /\ last.subreddits = {"python", "rust"}
    /\ NothingFetched
    /\ last.saves = 0
    /\ topics = last.before
    /\ topics # None

\* The topics the persisted store has an entry for.
TopicsIn(file) == IF file.kind = "object" THEN DOMAIN file.entries ELSE {}

\* A call changed the persisted store.
StoreRewritten ==
    /\ topics' # topics
    /\ last'.op = "get_subreddit_descriptions"

\* No topic left the store, and the entries of the topics that were not
\* asked for are as they were.
OnlyGrown ==
    /\ TopicsIn(topics) \subseteq TopicsIn(topics')
    /\ \A x \in TopicsIn(topics) \ last'.subreddits :
          topics'.entries[x] = topics.entries[x]

\* C21: over any sequence of get_subreddit_descriptions calls, including
\* calls that find the persisted file unreadable or unparsable, the set of
\* topics present in the persisted store never shrinks, and the entry of a
\* topic that was not requested in a call is unchanged by that call.
C21_AppendOverwriteOnly ==
    [][StoreRewritten => OnlyGrown]_vars

\* What does hold of C21: a call that could read the store it found and
\* could write the store it leaves only adds and overwrites entries.
C21_AppendOverwriteOnlyStored ==
    [][(StoreRewritten /\ last'.read = "ok" /\ last'.io = "ok")
          => OnlyGrown]_vars

\* A call that could not read the store wrote it back without the entry of
\* a topic it was not asked for.
C21_EntryLost ==
    /\ IsCall
    /\ last.read = "oserror"
    /\ last.io = "ok"
    /\ last.subreddits = {"python"}
    /\ "rust" \in TopicsIn(last.before)
    /\ TopicsIn(topics) = {"python"}

\* The description of every requested topic came from a fetch or is the
\* sentinel of a failed fetch.
Degraded ==
    \A x \in last.subreddits :
        /\ x \in DOMAIN last.ret
        /\ \/ last.fetched[x] = 1
           \/ /\ x \in DOMAIN last.cache.entries
              /\ last.ret[x] = last.cache.entries[x].desc

\* C22: get_subreddit_descriptions never raises, for any content of the
\* persisted topic store (absent, unparsable, JSON that is not a mapping,
\* entries of unexpected shape such as a non-numeric timestamp), any fetch
\* outcome and any failure to write the store back; it degrades to
\* fetching again or to the sentinel.
C22_NeverRaises ==
    IsCall => (~last.raised /\ Degraded)

\* What does hold of C22: a call that asks for no topic, or that finds the
\* store absent, unreadable, unparsable or a mapping whose entries for the
\* requested topics have no string for a timestamp, does not raise.
C22_NeverRaisesOnMappings ==
    (/\ IsCall
     /\ last.cache.kind = "object"
     /\ \A x \in last.subreddits \cap DOMAIN last.cache.entries :
           LET e == last.cache.entries[x]
           IN  (IsDict(e) /\ HasDesc(e)) => e.timestamp.type # "string")
        => (~last.raised /\ Degraded)

\* A call for a topic over a store holding a JSON array raised.
C22_Raised ==
    /\ IsCall
    /\ last.before = [kind |-> "array"]
    /\ last.read = "ok"
    /\ last.raised

\* A text with no whitespace at either end and no newline in it.
SingleLine(desc) ==
    /\ desc # <<>> => Head(desc) \notin Whitespace /\ desc[Len(desc)] \notin Whitespace
    /\ \A i \in DOMAIN desc : desc[i] # "\n"

\* C31: starting from an empty store, after any sequence of calls every
\* entry of the topic store and every description returned after a fetch
\* has its surrounding whitespace trimmed and contains no newline
\* character.
C31_SingleLine ==
    /\ topics # None =>
          \A sub \in TopicsIn(topics) : SingleLine(topics.entries[sub].desc)
    /\ last.op = "get_subreddit_descriptions" =>
          \A sub \in DOMAIN last.ret : SingleLine(last.ret[sub])

\* A description that came with a leading blank, an embedded and a trailing
\* newline is stored and returned cleaned.
C31_Witness ==
    /\ last.op = "get_subreddit_descriptions"
    /\ "python" \in DOMAIN last.ret
    /\ last.fetched["python"] = 1
    /\ last.fetch["python"].ok
    /\ last.fetch["python"].description = <<" ", "a", "\n", "b", "\n">>
    /\ last.ret["python"] = <<"a", " ", "b">>
    /\ topics # None
    /\ "python" \in TopicsIn(topics)
    /\ topics.entries["python"].desc = <<"a", " ", "b">>

\* A call was made in this step, and the store it wrote is the one
\* persisted.
CallRewrote ==
    /\ last'.op = "get_subreddit_descriptions"
    /\ topics' # topics
    /\ last'.saves = 1
    /\ last'.io = "ok"

\* A call was made in this step.
CallStep ==
    /\ last'.op = "get_subreddit_descriptions"
    /\ <<last, topics>>' # <<last, topics>>

\* C37: in a get_subreddit_descriptions call where a topic is a fresh hit
\* and another is fetched, the store rewritten by that call keeps the
\* description and cached_at of the hit exactly as they were and sets the
\* cached_at of the fetched one to the 'now' of the call; hence an entry is
\* stale, and fetched again, TTL seconds after it was last fetched, however
\* often it was read.
C37_HitKeepsAge ==
    /\ [][CallRewrote =>
            \A sub \in last'.subreddits :
                /\ last'.fetched[sub] = 0 =>
                      /\ topics # None
                      /\ sub \in TopicsIn(topics)
                      /\ sub \in TopicsIn(topics')
                      /\ topics'.entries[sub] = topics.entries[sub]
                /\ last'.fetched[sub] = 1 =>
                      /\ sub \in TopicsIn(topics')
                      /\ topics'.entries[sub].timestamp = Number(last'.time)]_vars
    /\ [][(CallStep /\ topics # None) =>
            \A sub \in last'.subreddits \cap TopicsIn(topics) :
                last'.time - topics.entries[sub].timestamp.value
                      >= last'.cache_days * 24 * 60 * 60
                    => last'.fetched[sub] = 1]_vars

\* A call a second after python was fetched served python from the cache
\* and fetched rust; the store holds python with its old time and rust
\* with the time of the call.
C37_Witness ==
    /\ last.op = "get_subreddit_descriptions"
    /\ last.subreddits = {"python", "rust"}
    /\ last.time = 24 * 60 * 60 + 1
    /\ last.fetched["python"] = 0
    /\ last.fetched["rust"] = 1
    /\ topics # None
    /\ TopicsIn(topics) = {"python", "rust"}
    /\ topics.entries["python"].timestamp = Number(24 * 60 * 60)
    /\ topics.entries["rust"].timestamp = Number(24 * 60 * 60 + 1)

-----------------------------------------------------------------------------
(* The serializers as functions: SpecXml *)

Chars == {"a", "<", "&"}

Texts == {Str(chars) : chars \in SeqsUpTo(Chars, MaxText)}

OptionalTexts == {None} \union Texts

\* Posts and comments with the fields the serializers read.
XmlPosts == [type : {"post"}, title : {Str(<<"t", "&">>)}, selftext : Texts]

XmlComments ==
    [type : {"comment"}, body : {Str(<<"b", "<">>)},
     parent_author : OptionalTexts, parent_context : OptionalTexts]

\* The arguments of a serializer.
ActivityInputs ==
    [activity : XmlPosts \union XmlComments,
     include_post_bodies : BOOLEAN,
     max_post_body_length : 0..MaxBodyLength]

\* What comment.parent() gives.
RawParents ==
    {[kind |-> "raises"],
     [kind |-> "comment", body |-> Str(<<"a", "<", "&">>)],
     [kind |-> "submission", title |-> Str(<<"t">>), selftext |-> Str(<<"a">>)]}

\* What the activity source does after it has yielded its item: the
\* iteration ends, or it fails.
Sources == {"ends", "fails"}

\* A raw comment or a raw submission of the activity source, with the
\* limits of the request.
RawInputs ==
    [comment : [body : Texts, parent : RawParents],
     source : Sources,
     include_parent_context : BOOLEAN,
     max_parent_context_length : 0..MaxBodyLength,
     max_comment_length : 0..MaxBodyLength]
    \union
    [submission : [title : {Str(<<"t">>)}, selftext : Texts],
     source : Sources,
     max_post_body_length : 0..MaxBodyLength]

\* Topic names and descriptions, and the arguments of
\* analyze_reddit_activity that go into its prompt.
PromptTopicNames == {Str(<<"p">>), Str(<<"p", "\"">>)}

PromptInputs ==
    [subreddit_descriptions :
        {<<>>} \union {<<<<name, desc>>>> : name \in PromptTopicNames, desc \in Texts},
     activities_for_llm :
        {<<>>} \union {<<a>> : a \in {x \in XmlPosts \union XmlComments :
                                        \/ x.type = "post"
                                        \/ x.parent_author = x.parent_context}},
     include_post_bodies : {TRUE},
     max_post_body_length : {MaxBodyLength}]

\* What the activity source yields without failing: up to two raw items
\* with different ids.
RawItems(ids) ==
    {raw \in SeqsUpTo([id : ids, subreddit : {"python"}, created_utc : {1, 2},
                       parent : {"parent text"}], 2) :
        \A i, j \in DOMAIN raw : i # j => raw[i].id # raw[j].id}

SourceInputs ==
    [raw_comments : RawItems({"c1", "c2"}),
     raw_posts : RawItems({"p1", "p2"}),
     include_parent_context : BOOLEAN]

InitXml ==
    /\ inp \in ActivityInputs \union RawInputs \union PromptInputs
               \union SourceInputs
    /\ store = <<>>
    /\ now = 24 * 60 * 60
    /\ ticks = 0
    /\ writes = 0
    /\ last = Idle
    /\ lastPut = None
    /\ procs = <<>>
    /\ topics = None

ToXml ==
    /\ "activity" \in DOMAIN inp
    /\ last = Idle
    /\ last' = [op |-> "to_xml",
                out |-> to_xml(inp.activity, inp.include_post_bodies,
                               inp.max_post_body_length)]
    /\ UNCHANGED <<store, now, ticks, writes, lastPut, inp, procs, topics>>

FormatActivityForLlm ==
    /\ "activity" \in DOMAIN inp
    /\ last = Idle
    /\ last' = [op |-> "format_activity_for_llm",
                out |-> format_activity_for_llm(inp.activity,
                                                inp.include_post_bodies,
                                                inp.max_post_body_length)]
    /\ UNCHANGED <<store, now, ticks, writes, lastPut, inp, procs, topics>>

\* fetch_comments on a source with one comment.
FetchComment ==
    /\ "comment" \in DOMAIN inp
    /\ last = Idle
    /\ \E texts \in {CommentTexts(inp.comment, inp.include_parent_context,
                                  inp.max_parent_context_length,
                                  inp.max_comment_length)} :
          last' = [op |-> "fetch_comments", texts |-> texts,
                   comments |-> Constructed(CommentRequired,
                                            FetchCommentsKeywords, texts),
                   raised |-> FetchRaises(inp.source)]
    /\ UNCHANGED <<store, now, ticks, writes, lastPut, inp, procs, topics>>

\* fetch_posts on a source with one submission.
FetchPost ==
    /\ "submission" \in DOMAIN inp
    /\ last = Idle
    /\ \E texts \in {PostTexts(inp.submission)} :
          last' = [op |-> "fetch_posts", texts |-> texts,
                   posts |-> Constructed(PostRequired, FetchPostsKeywords,
                                         texts),
                   raised |-> FetchRaises(inp.source)]
    /\ UNCHANGED <<store, now, ticks, writes, lastPut, inp, procs, topics>>

\* fetch_comments and fetch_posts on a source that yields its items and
\* ends.
FetchActivities ==
    /\ "raw_comments" \in DOMAIN inp
    /\ last = Idle
    /\ last' = [op |-> "fetch",
                comments |-> fetch_comments(inp.raw_comments,
                                            inp.include_parent_context),
                posts |-> fetch_posts(inp.raw_posts)]
    /\ UNCHANGED <<store, now, ticks, writes, lastPut, inp, procs, topics>>

\* The prompt building of analyze_reddit_activity.
BuildPrompt ==
    /\ "subreddit_descriptions" \in DOMAIN inp
    /\ last = Idle
    /\ \E prompt \in {Prompt(inp.subreddit_descriptions, inp.activities_for_llm,
                             inp.include_post_bodies,
                             inp.max_post_body_length)} :
          last' = [op |-> "prompt", prompt |-> prompt]
    /\ UNCHANGED <<store, now, ticks, writes, lastPut, inp, procs, topics>>

NextXml ==
    \/ ToXml \/ FormatActivityForLlm \/ FetchComment \/ FetchPost
    \/ BuildPrompt \/ FetchActivities

SpecXml == InitXml /\ [][NextXml]_vars

-----------------------------------------------------------------------------
(* Claims about the serializers *)

IsRendering == last.op \in {"to_xml", "format_activity_for_llm"}

Has(out, tag) == \E i \in DOMAIN out.content : out.content[i].tag = tag

\* The name of the body of a post and of the parent context of a comment
\* in the two renderings.
BodyTag == IF last.op = "to_xml" THEN "Body" ELSE "Content"

ParentTag == IF last.op = "to_xml" THEN "ParentContext" ELSE "Parent Context"

PostPolicy ==
    /\ Has(last.out, "Title")
    /\ Has(last.out, BodyTag)
        <=> (inp.include_post_bodies /\ inp.activity.selftext.chars # <<>>)
    /\ ~Has(last.out, BodyTag) => Len(last.out.content) = 1

CommentPolicy ==
    Has(last.out, ParentTag) <=> IsTrue(inp.activity.parent_context)

\* C19: the rendered record of a post contains a body element iff
\* include_post_bodies is true and the post's body is non-empty, otherwise
\* only the title is rendered; a comment's record contains a parent-context
\* element iff its parent_context is present and non-empty.
C19_BodyAndParentPolicy ==
    IsRendering =>
        /\ ~last.out.raised
        /\ IF inp.activity.type = "post" THEN PostPolicy ELSE CommentPolicy

\* What does hold of C19: every record that is rendered follows the policy,
\* and a post is always rendered.
C19_PolicyOfRenderedRecords ==
    IsRendering =>
        /\ inp.activity.type = "post" => ~last.out.raised /\ PostPolicy
        /\ inp.activity.type = "comment" /\ ~last.out.raised => CommentPolicy

\* A comment with a parent context and no parent author has no record.
C19_NoRecord ==
    /\ last.op = "to_xml"
    /\ inp.activity.type = "comment"
    /\ IsTrue(inp.activity.parent_context)
    /\ inp.activity.parent_author = None
    /\ last.out.raised

\* The texts of the comment fetched are within the limits of the call.
CommentBounded ==
    /\ Len(last.texts.body.chars) <= inp.max_comment_length
    /\ last.texts.parent_context # None =>
          Len(last.texts.parent_context.chars) <= inp.max_parent_context_length

\* C29: every Comment produced by fetch_comments has len(body) <=
\* max_comment_length and len(parent_context) <=
\* max_parent_context_length, and every Post produced by fetch_posts has a
\* body already truncated to the maximum post-body length, so no
\* truncation is left to be done at serialization.
C29_BoundedAtConstruction ==
    /\ last.op = "fetch_comments" => CommentBounded
    /\ last.op = "fetch_posts" =>
          Len(last.texts.selftext.chars) <= inp.max_post_body_length

\* What does hold of C29: the texts fetch_comments hands to Comment(...)
\* are cut to the limits of the call.
C29_CommentsBounded ==
    last.op = "fetch_comments" => CommentBounded

\* fetch_posts handed a body longer than the maximum to Post(...).
C29_PostUnbounded ==
    /\ last.op = "fetch_posts"
    /\ inp.max_post_body_length = 1
    /\ Len(last.texts.selftext.chars) = 2

\* The comment whose parent could not be resolved is in the result, with
\* no parent context.
ParentFailureAbsorbed ==
    inp.include_parent_context /\ inp.comment.parent.kind = "raises" =>
        /\ Len(last.comments) = 1
        /\ last.comments[1].parent_context = None

\* C33: fetch_comments and fetch_posts never raise; a failure while
\* iterating the source returns the activities collected before it, and a
\* failure while resolving one comment's parent leaves that comment in the
\* result with an absent parent_context.
C33_FailuresAbsorbed ==
    /\ last.op \in {"fetch_comments", "fetch_posts"} => ~last.raised
    /\ last.op = "fetch_comments" => Len(last.comments) <= 1
    /\ last.op = "fetch_posts" => Len(last.posts) <= 1
    /\ last.op = "fetch_comments" => ParentFailureAbsorbed

\* What does hold of C33: no exception leaves a fetch, whether the source
\* fails or not, and what is returned is a list of at most the items the
\* source yielded.
C33_NeverRaises ==
    /\ last.op \in {"fetch_comments", "fetch_posts"} => ~last.raised
    /\ last.op = "fetch_comments" => Len(last.comments) <= 1
    /\ last.op = "fetch_posts" => Len(last.posts) <= 1

\* The parent of the one comment of the source could not be resolved, and
\* the comment is not in the result.
C33_CommentMissing ==
    /\ last.op = "fetch_comments"
    /\ inp.source = "ends"
    /\ inp.include_parent_context
    /\ inp.comment.parent.kind = "raises"
    /\ last.texts.parent_context = None
    /\ last.comments = <<>>

\* One record per raw item, in the order of the source, with its id.
OnePerItem(records, raw) ==
    /\ Len(records) = Len(raw)
    /\ \A i \in DOMAIN raw : records[i].id = raw[i].id

\* C34: when the activity source yields n raw comments (or posts) without
\* any error, fetch_comments (fetch_posts) returns exactly n Comment (Post)
\* records, in source order, one per raw item with the same id.
C34_OnePerRawItem ==
    last.op = "fetch" =>
        /\ OnePerItem(last.comments, inp.raw_comments)
        /\ OnePerItem(last.posts, inp.raw_posts)

\* What does hold of C34: a source that yields nothing gives an empty list.
C34_NoneOfNone ==
    last.op = "fetch" =>
        /\ inp.raw_comments = <<>> => last.comments = <<>>
        /\ inp.raw_posts = <<>> => last.posts = <<>>

\* The source yielded two comments and one post, and both lists came back
\* empty.
C34_NothingFetched ==
    /\ last.op = "fetch"
    /\ Len(inp.raw_comments) = 2
    /\ Len(inp.raw_posts) = 1
    /\ last.comments = <<>>
    /\ last.posts = <<>>

\* The special characters of the prompt's structure.
Specials == {"<", ">", "&", "\"", "'"}

\* No character of the text is a special character (an escaped one is an
\* entity such as "&lt;").
Escaped(text) == \A i \in DOMAIN text : text[i] \notin Specials

\* Every text of the activity records of the prompt is escaped.
RecordsEscaped ==
    \A i \in DOMAIN last.prompt.activities :
        \A j \in DOMAIN last.prompt.activities[i] :
            Escaped(last.prompt.activities[i][j].text)

\* Every name and description of the context block is escaped.
ContextsEscaped ==
    \A i \in DOMAIN last.prompt.contexts :
        /\ Escaped(last.prompt.contexts[i].name)
        /\ Escaped(last.prompt.contexts[i].text)

\* C30: the prompt built by analyze_reddit_activity contains the special
\* characters (<, >, &, quotes) of activity texts, topic names and topic
\* descriptions only in escaped form, in the activity records and in the
\* subreddit-context block alike.
C30_PromptEscaped ==
    last.op = "prompt" /\ ~last.prompt.raised =>
        RecordsEscaped /\ ContextsEscaped

\* What does hold of C30: the activity records of the prompt are escaped.
C30_RecordsEscaped ==
    last.op = "prompt" /\ ~last.prompt.raised => RecordsEscaped

\* A prompt whose context block has a description with "<" in it, next to
\* an activity record.
C30_RawDescription ==
    /\ last.op = "prompt"
    /\ ~last.prompt.raised
    /\ last.prompt.activities # <<>>
    /\ \E i \in DOMAIN last.prompt.contexts :
          \E j \in DOMAIN last.prompt.contexts[i].text :
              last.prompt.contexts[i].text[j] = "<"

-----------------------------------------------------------------------------
(* Concurrent invocations sharing the storage: SpecRace *)

\* A file in which a writer put a shorter text over the longer text of
\* another writer: open(path, 'w') truncates when the file is opened, not
\* when it is written, and every writer writes from offset 0.
Torn == [kind |-> "unparsable", torn |-> TRUE]

\* What a file holds after a writer that had it open wrote data and closed
\* it.  content is what the file held just before: nothing when no other
\* writer wrote since this one opened it (Unparsable, the empty file).
\* Over the text of another writer the outcome depends on the lengths of
\* the two texts.
Overwritten(content, data) ==
    IF content = Unparsable \/ content = data THEN {data} ELSE {data, Torn}

\* The parameter mapping of the concurrent requests.
RaceConfig == << <<"comments_limit", "50">> >>

\* The record an earlier request left for alice, a second old.
OldRecord ==
    CacheData("alice", 24 * 60 * 60 - 1, _generate_config_hash(RaceConfig),
              [user_info |-> "info", llm_analysis |-> "analysis1"])

\* Invocations at their first statement.
Saver(username, analysis_result) ==
    [kind |-> "save_result", pc |-> "start", username |-> username,
     analysis_result |-> analysis_result, cache_data |-> None]

Getter(username) ==
    [kind |-> "get_cached_result", pc |-> "start", username |-> username,
     found |-> None, ret |-> None, raised |-> FALSE]

Describer(subreddits) ==
    [kind |-> "get_subreddit_descriptions", pc |-> "start",
     subreddits |-> subreddits, cache |-> None, ret |-> <<>>]

\* The invocations that run side by side and the result cache directory
\* they start from: two writers of results and a reader, or two requests
\* for topic descriptions.
RaceScenarios ==
    {[procs |-> <<Saver("alice", x), Saver(u, y), Getter("alice")>>,
      store |-> st] :
        x \in {[user_info |-> "info", llm_analysis |-> "analysis2"]},
        y \in Payloads, u \in Usernames,
        st \in {<<>>, Written(<<>>, get_cache_path("alice", RaceConfig),
                             OldRecord)}}
    \union
    {[procs |-> <<Describer(a), Describer(b)>>, store |-> <<>>] :
        a \in {<<"python">>}, b \in {<<"rust">>, <<"python", "rust">>,
                                     <<"rust", "python">>}}

InitRace ==
    /\ \E scenario \in RaceScenarios :
          /\ procs = scenario.procs
          /\ store = scenario.store
    /\ topics = None
    /\ now = 24 * 60 * 60
    /\ ticks = 0
    /\ writes = 0
    /\ last = Idle
    /\ lastPut = None
    /\ inp = NoInput

At(p, kind, pc) ==
    /\ p \in DOMAIN procs
    /\ procs[p].kind = kind
    /\ procs[p].pc = pc

PathOf(p) == get_cache_path(procs[p].username, RaceConfig)

\* save_result up to open(cache_path, 'w'): the record is built, the file
\* is created or emptied.
SaveOpen(p) ==
    /\ At(p, "save_result", "start")
    /\ procs' = [procs EXCEPT
                   ![p].pc = "opened",
                   ![p].cache_data =
                       NewCacheData(store, procs[p].username, RaceConfig,
                                    procs[p].analysis_result, now)]
    /\ store' = Written(store, PathOf(p), Unparsable)
    /\ UNCHANGED <<now, ticks, writes, last, lastPut, inp, topics>>

\* json.dump and the end of the with block of save_result.
SaveDump(p) ==
    /\ At(p, "save_result", "opened")
    /\ \E content \in Overwritten(store[PathOf(p)], procs[p].cache_data) :
          /\ store' = Written(store, PathOf(p), content)
          /\ last' = [op |-> "save_result", proc |-> p, path |-> PathOf(p),
                      written |-> procs[p].cache_data,
                      found |-> store[PathOf(p)]]
    /\ procs' = [procs EXCEPT ![p].pc = "done"]
    /\ UNCHANGED <<now, ticks, writes, lastPut, inp, topics>>

\* get_cached_result up to os.path.exists(cache_path).
GetExists(p) ==
    /\ At(p, "get_cached_result", "start")
    /\ procs' = [procs EXCEPT
                   ![p].pc = IF PathOf(p) \in DOMAIN store
                             THEN "exists" ELSE "done"]
    /\ UNCHANGED <<store, now, ticks, writes, last, lastPut, inp, topics>>

\* The try of get_cached_result, on the file as it is by now.
GetRead(p, read) ==
    /\ At(p, "get_cached_result", "exists")
    /\ \E out \in {ExceptException(ReadCache(store, PathOf(p), MaxCacheDays,
                                             now, read))} :
          /\ procs' = [procs EXCEPT ![p].pc = "done", ![p].ret = out.ret,
                                    ![p].raised = out.raised,
                                    ![p].found = store[PathOf(p)]]
          /\ store' = out.store
    /\ UNCHANGED <<now, ticks, writes, last, lastPut, inp, topics>>

\* The description every fetch of the concurrent requests gives.
RaceFetch ==
    [sub \in TopicNames |->
        [ok |-> TRUE, public_description |-> <<"d">>, description |-> <<>>]]

\* get_subreddit_descriptions up to the end of its loop: the store is
\* loaded once, every topic is decided on the loaded mapping.
DescribeLoad(p) ==
    /\ At(p, "get_subreddit_descriptions", "start")
    /\ \E done \in {DescribeAll(
                       LoopState(get_cached_subreddit_descriptions(topics,
                                                                   "ok"),
                                 <<>>, FALSE, <<>>, "none"),
                       procs[p].subreddits, FALSE, MaxCacheDays, now,
                       RaceFetch)} :
          procs' = [procs EXCEPT
                      ![p].pc = IF SavesWhen(done.updated)
                                THEN "decided" ELSE "done",
                      ![p].cache = done.cache,
                      ![p].ret = done.subreddit_descriptions]
    /\ UNCHANGED <<store, now, ticks, writes, last, lastPut, inp, topics>>

\* save_subreddit_descriptions up to open(cache_path, 'w').
DescribeOpen(p) ==
    /\ At(p, "get_subreddit_descriptions", "decided")
    /\ procs' = [procs EXCEPT ![p].pc = "opened"]
    /\ topics' = Unparsable
    /\ UNCHANGED <<store, now, ticks, writes, last, lastPut, inp>>

\* json.dump and the end of the with block of save_subreddit_descriptions.
DescribeDump(p) ==
    /\ At(p, "get_subreddit_descriptions", "opened")
    /\ \E content \in Overwritten(topics, procs[p].cache) :
          /\ topics' = content
          /\ last' = [op |-> "save_subreddit_descriptions", proc |-> p,
                      written |-> procs[p].cache, found |-> topics]
    /\ procs' = [procs EXCEPT ![p].pc = "done"]
    /\ UNCHANGED <<store, now, ticks, writes, lastPut, inp>>

\* The processes a scenario can have.
Pids == 1..3

NextRace ==
    \E p \in Pids :
        \/ SaveOpen(p)
        \/ SaveDump(p)
        \/ GetExists(p)
        \/ \E read \in {"ok", "oserror"} : GetRead(p, read)
        \/ DescribeLoad(p)
        \/ DescribeOpen(p)
        \/ DescribeDump(p)

SpecRace == InitRace /\ [][NextRace]_vars

-----------------------------------------------------------------------------
(* Claims about concurrent invocations *)

AllDone == \A p \in DOMAIN procs : procs[p].pc = "done"

IsSave == last.op \in {"save_result", "save_subreddit_descriptions"}

\* What the last writer left is what the storage holds.
LastWriterWon ==
    /\ last.op = "save_subreddit_descriptions" => topics = last.written
    /\ last.op = "save_result" => Content(store, last.path) = last.written

\* C23: when two get_subreddit_descriptions calls interleave (each loads
\* the store, decides per topic, then saves its whole mapping), the final
\* persisted topic store equals the mapping saved by whichever call wrote
\* last; likewise the final result record at a key is the one of the last
\* successful save_result.
C23_LastWriterWins ==
    (AllDone /\ IsSave) => LastWriterWon

\* What does hold of C23: the last writer wins when no other writer wrote
\* into the file between its open and its write.
C23_LastWriterWinsUnlessOverlapped ==
    (AllDone /\ IsSave /\ last.found = Unparsable) => LastWriterWon

\* Two requests each fetched a topic the other did not store, and the
\* store holds the mapping of the last writer alone: the entry of the
\* earlier writer is lost.
C23_LostUpdate ==
    /\ AllDone
    /\ last.op = "save_subreddit_descriptions"
    /\ last.found = Unparsable
    /\ topics = last.written
    /\ TopicsIn(topics) = {"rust"}
    /\ procs[1].ret = ("python" :> <<"d">>)

\* Two requests wrote the topic store at the same time and left a file
\* that does not parse.
C23_TornStore ==
    /\ AllDone
    /\ last.op = "save_subreddit_descriptions"
    /\ topics = Torn

\* The complete records of alice's key: the one stored before the
\* requests and the ones the writers build.
CompleteRecords ==
    {OldRecord}
    \union {NewCacheData(store, "alice", RaceConfig, x, now) : x \in Payloads}

IsReader(p) == procs[p].kind = "get_cached_result" /\ procs[p].pc = "done"

\* C24: a get_cached_result that interleaves with a save_result on the same
\* key (file truncated, partially written, or replaced between the
\* existence check and the read) returns either absent, the complete old
\* record or the complete new record; it never raises and never returns a
\* partially written record.
C24_ReaderTolerates ==
    \A p \in DOMAIN procs :
        IsReader(p) =>
            /\ ~procs[p].raised
            /\ procs[p].ret = None \/ procs[p].ret \in CompleteRecords

\* The reader saw the old record exist, a writer emptied the file before
\* the reader opened it, and the reader returned absent.
C24_Witness ==
    \E p \in DOMAIN procs :
        /\ IsReader(p)
        /\ OldRecord \notin {Content(store, PathOf(p))}
        /\ procs[p].found = Unparsable
        /\ procs[p].ret = None
        /\ ~procs[p].raised

\* The reader returned the complete new record the writer had just put in
\* the place of the old one.
C24_NewRecord ==
    \E p \in DOMAIN procs :
        /\ IsReader(p)
        /\ procs[p].ret \in CompleteRecords \ {OldRecord}

\* Process p, a save_result, took a step.
SaverStep(p) == procs[p].kind = "save_result" /\ procs'[p] # procs[p]

\* The record of subject u for the parameters c.
RecordOf(st, u, c) == Content(st, get_cache_path(u, c))

\* C25: save_result(s1, p1, x) changes only the record at key(s1, p1) and
\* leaves the record of every other (s2, p2) with s2 # s1 and the topic
\* store unchanged, so invocations for distinct subjects, run in any
\* interleaving, never alter each other's result records.
C25_KeysIndependent ==
    [][\A p \in DOMAIN procs :
          SaverStep(p) =>
              /\ \A path \in (DOMAIN store \union DOMAIN store') \ {PathOf(p)} :
                    Content(store', path) = Content(store, path)
              /\ \A u \in Usernames \ {procs[p].username}, c \in StoreConfigs :
                    RecordOf(store', u, c) = RecordOf(store, u, c)
              /\ topics' = topics]_vars

\* The writers of alice and of bob ran side by side and each left the
\* complete record of its own subject.
C25_Witness ==
    /\ AllDone
    /\ procs[2].kind = "save_result"
    /\ procs[2].username = "bob"
    /\ RecordOf(store, "alice", RaceConfig) = procs[1].cache_data
    /\ RecordOf(store, "bob", RaceConfig) = procs[2].cache_data
    /\ procs[1].cache_data # procs[2].cache_data

-----------------------------------------------------------------------------
(* The legacy script main.py next to the package: SpecLegacy *)

THIRTY_DAYS == 30 * 24 * 60 * 60

\* main.get_subreddit_descriptions, loading: {} when the file cannot be
\* opened or parsed, otherwise whatever JSON value it holds.
LegacyLoad(file, read) ==
    IF file = None \/ read = "oserror" THEN Mapping(<<>>)
    ELSE IF file.kind = "unparsable" THEN Mapping(<<>>)
    ELSE file

\* main.get_subreddit_descriptions, one iteration of its loop.
LegacyDescribeOne(acc, sub, t, outcome) ==
    IF acc.cache.kind # "object"
    THEN [acc EXCEPT !.exc = "AttributeError"]
    ELSE IF sub \notin DOMAIN acc.cache.entries
    THEN Refresh(acc, sub, t, outcome)
    ELSE
      LET cache_entry == acc.cache.entries[sub] IN
      IF ~IsDict(cache_entry) \/ ~HasDesc(cache_entry)
      THEN Refresh(acc, sub, t, outcome)
      ELSE
        LET ts == GetTimestamp(cache_entry) IN
        IF ts.type # "number"
        THEN [acc EXCEPT !.exc = "TypeError"]
        ELSE IF (t - ts.value) < THIRTY_DAYS
        THEN [acc EXCEPT !.subreddit_descriptions =
                            (sub :> cache_entry.desc) @@ @]
        ELSE Refresh(acc, sub, t, outcome)

RECURSIVE LegacyDescribeAll(_, _, _, _)
LegacyDescribeAll(acc, subreddits, t, fetch) ==
    IF subreddits = <<>> \/ acc.exc # "none" THEN acc
    ELSE LegacyDescribeAll(
            LegacyDescribeOne(acc, Head(subreddits), t, fetch[Head(subreddits)]),
            Tail(subreddits), t, fetch)

\* main.get_subreddit_descriptions, saving: open(cache_file, "w") truncates,
\* json.dump writes, every exception is logged only.
LegacySave(file, cache, io) ==
    CASE io = "open_fails" -> file
      [] io = "dump_fails" -> Unparsable
      [] io = "ok" -> cache

\* main.get_subreddit_descriptions on the topics of the activities given,
\* iterated in the order subreddits.
LegacyGetSubredditDescriptions(file, subreddits, t, fetch, read, io) ==
    LET cache == LegacyLoad(file, read)
        done == LegacyDescribeAll(LoopState(cache, <<>>, FALSE, <<>>, "none"),
                                  subreddits, t, fetch)
    IN  IF done.exc # "none"
        THEN [ret |-> <<>>, raised |-> TRUE, topics |-> file]
        ELSE IF done.updated
        THEN [ret |-> done.subreddit_descriptions, raised |-> FALSE,
              topics |-> LegacySave(file, done.cache, io)]
        ELSE [ret |-> done.subreddit_descriptions, raised |-> FALSE,
              topics |-> file]

\* main.analyze_reddit_activity_with_llm: the two loops that fill
\* all_activities.
LegacyCombine(comments_data, posts_data) ==
    AppendUnseen(AppendUnseen(<<>>, comments_data), posts_data)

\* main.analyze_reddit_activity_with_llm up to activities_for_llm, with
\* GOOGLE_API_KEY set.
LegacySelect(comments_data, posts_data, max_activities_for_llm) ==
    IF comments_data = <<>> /\ posts_data = <<>> THEN <<>>
    ELSE Slice(SortByCreatedDesc(LegacyCombine(comments_data, posts_data)),
               max_activities_for_llm)

\* The comments and posts given to both aggregations: up to two of each,
\* with ids and times that coincide.
LegacyInputs ==
    [comments : SeqsUpTo({c \in SomeComments : c.parent_context = NoString}, 2),
     posts : SeqsUpTo(SomePosts, 2),
     max_activities : 0..MaxCount]

InitLegacy ==
    /\ \/ /\ inp \in LegacyInputs
          /\ topics = None
       \/ /\ inp = NoInput
          /\ topics \in {None} \union ForeignStores
    /\ store = <<>>
    /\ now = 24 * 60 * 60
    /\ ticks = 0
    /\ writes = 0
    /\ last = Idle
    /\ lastPut = None
    /\ procs = <<>>

\* Both topic caches are asked for the same topics over the same store,
\* with the same collaborator and storage; the store either leaves is the
\* one the next call finds.
DescribeBoth(subreddits, fetch, read, io) ==
    \E packaged \in {get_subreddit_descriptions(topics, subreddits, FALSE, 30,
                                                now, fetch, read, io)} :
    \E legacy \in {LegacyGetSubredditDescriptions(topics, subreddits, now,
                                                  fetch, read, io)} :
        /\ inp = NoInput
        /\ \A i \in DOMAIN subreddits :
              Count(packaged.fetched, subreddits[i]) = 0 =>
                  fetch[subreddits[i]] = [ok |-> FALSE]
        /\ packaged.saves = 0 => io = "ok"
        /\ topics' \in {packaged.topics, legacy.topics}
        /\ last' = [op |-> "get_subreddit_descriptions",
                    subreddits |-> {subreddits[i] : i \in DOMAIN subreddits},
                    time |-> now, before |-> topics, io |-> io,
                    fetched |-> packaged.fetched,
                    packaged |-> [ret |-> packaged.ret,
                                  raised |-> packaged.raised,
                                  topics |-> packaged.topics],
                    legacy |-> legacy]
        /\ UNCHANGED <<store, now, ticks, writes, lastPut, inp, procs>>

\* Both aggregations select from the same comments and posts.
SelectBoth ==
    /\ inp # NoInput
    /\ last = Idle
    /\ last' = [op |-> "select",
                packaged |-> analyze_reddit_activity(
                                 inp.comments, inp.posts, inp.max_activities,
                                 "text").activities_for_llm,
                legacy |-> LegacySelect(inp.comments, inp.posts,
                                        inp.max_activities)]
    /\ UNCHANGED <<store, now, ticks, writes, lastPut, inp, procs, topics>>

NextLegacy ==
    \/ \E requested \in TopicSets :
          \E subreddits \in Orders(requested),
             fetch \in [requested -> FetchOutcomes],
             read \in Reads(topics # None), io \in Ios(requested # {}) :
             DescribeBoth(subreddits, fetch, read, io)
    \/ SelectBoth
    \/ \E seconds \in {1, THIRTY_DAYS} : inp = NoInput /\ Elapse(seconds)

SpecLegacy == InitLegacy /\ [][NextLegacy]_vars

C38_SelectWitness ==
    /\ last.op = "select"
    /\ Len(inp.comments) = 2
    /\ Len(inp.posts) = 2
    /\ \E i \in DOMAIN inp.posts : inp.posts[i].id = inp.comments[1].id
    /\ inp.max_activities = 2
    /\ Len(last.legacy) = 2
    /\ last.legacy = last.packaged

====
